---- MODULE Spec2Model ----
(***************************************************************************)
(* Model of the Apple receipt pipeline of gmail_access:                    *)
(*   item.py     Item: classification of a description (fragment) list,    *)
(*               derived attributes, apply_tax / calc_tax / adjust_tax     *)
(*   receipt.py  Receipt: add_item, apply_tax_to_items (tax                *)
(*               reconciliation), exists / save / insert                   *)
(*   get_apple_receipts_emails.py  main: the batch driver                  *)
(*                                                                         *)
(* Money is a Decimal with two places in the program; here it is an        *)
(* integer number of cents.  A tax rate is a Decimal with up to eight      *)
(* places; here it is an integer number of 1/RateScale units.              *)
(* Strings are TLA+ strings; the program's string methods are operators    *)
(* over them (SubSeq, Len and \o work on strings).                         *)
(***************************************************************************)
EXTENDS Integers, Sequences, FiniteSets, TLC

VARIABLES
    desc_lst,   \* the description list handed to Item.__init__
    item,       \* the Item under construction / test (or NoItem / an error)
    ret,        \* record of the last method called, with its return value
    ops,        \* number of Item / Receipt method calls made so far
    receipt,    \* the Receipt object (or NoReceipt)
    tax_rate,   \* Receipt.tax_rate (class attribute, overridable)
    err,        \* exception raised by the last operation, or NoErr
    pc,         \* position of main() / from_receipt_email
    inbox,      \* number of messages of the batch not yet fetched
    dto,        \* the ReceiptEmail carrier record being processed
    pending,    \* carrier items not yet attached to the receipt
    headers,    \* rows of order_header (sequence of order ids)
    details,    \* rows of item_detail (their hdr_id column)
    files,      \* archive files written by Receipt.save
    calls,      \* history: methods called on the current receipt, in order
    doc,        \* the parsed HTML document (soup) given to get_parser
    parser      \* the parsing strategy get_parser returned, or None

vars == <<desc_lst, item, ret, ops, receipt, tax_rate, err, pc, inbox, dto,
          pending, headers, details, files, calls, doc, parser>>

(* Python values *)

None == "None"          \* Python None (no lower-cased fragment equals it)
NoItem == [kind |-> "NoItem"]
NoReceipt == [kind |-> "NoReceipt"]
NoErr == "NoErr"
NoDto == [kind |-> "NoDto"]
NoDoc == [kind |-> "NoDoc"]

\* stand-in for the non-breaking space U+00A0
NBSP == "_"

(* str methods *)

Char(s, i) == SubSeq(s, i, i)

From(s, i) == IF i > Len(s) THEN "" ELSE SubSeq(s, i, Len(s))

\* s.startswith(p)
StartsWith(s, p) == Len(s) >= Len(p) /\ SubSeq(s, 1, Len(p)) = p

\* sub in s
RECURSIVE Contains(_, _)
Contains(s, sub) ==
    IF Len(s) < Len(sub) THEN FALSE
    ELSE IF StartsWith(s, sub) THEN TRUE
    ELSE Contains(From(s, 2), sub)

\* s.replace(old, new): left to right, non-overlapping (old is never empty)
RECURSIVE Replace(_, _, _)
Replace(s, old, new) ==
    IF Len(s) < Len(old) THEN s
    ELSE IF StartsWith(s, old) THEN new \o Replace(From(s, Len(old) + 1), old, new)
    ELSE Char(s, 1) \o Replace(From(s, 2), old, new)

UpperCase == "ABCDEFGHIJKLMNOPQRSTUVWXYZ"
LowerCase == "abcdefghijklmnopqrstuvwxyz"

LowerMap ==
    [c \in {Char(UpperCase, i) : i \in 1..Len(UpperCase)} |->
        LET i == CHOOSE j \in 1..Len(UpperCase) : Char(UpperCase, j) = c
        IN  Char(LowerCase, i)]

LowerChar(c) == IF c \in DOMAIN LowerMap THEN LowerMap[c] ELSE c

\* s.lower()
RECURSIVE Lower(_)
Lower(s) == IF s = "" THEN "" ELSE LowerChar(Char(s, 1)) \o Lower(From(s, 2))

\* characters str.strip() removes: blank, newline, non-breaking space
Whitespace == {" ", "\n", NBSP}

\* s.strip()
RECURSIVE LStrip(_)
LStrip(s) == IF s # "" /\ Char(s, 1) \in Whitespace THEN LStrip(From(s, 2)) ELSE s

RECURSIVE RStrip(_)
RStrip(s) ==
    IF s # "" /\ Char(s, Len(s)) \in Whitespace
    THEN RStrip(SubSeq(s, 1, Len(s) - 1)) ELSE s

Strip(s) == RStrip(LStrip(s))

\* position of the first occurrence of the one-character string c in s, 0 if none
RECURSIVE FindFrom(_, _, _)
FindFrom(s, c, i) ==
    IF i > Len(s) THEN 0
    ELSE IF Char(s, i) = c THEN i
    ELSE FindFrom(s, c, i + 1)

\* s.split(":")[0]
BeforeColon(s) ==
    LET k == FindFrom(s, ":", 1) IN IF k = 0 THEN s ELSE SubSeq(s, 1, k - 1)

\* s.split(":", 1)[1]   (only used when ":" in s)
AfterColon(s) == From(s, FindFrom(s, ":", 1) + 1)

\* [desc.lower() for desc in description_list]
LowerAll(lst) == [i \in 1..Len(lst) |-> Lower(lst[i])]

\* desc_lst[i] with Python's zero-based index i; IndexError is reported by the caller
At(lst, i) == lst[i + 1]

(* item.py: enumerations and reference lists *)

ItemTypes ==
    {"MOVIE_RENTAL", "MOVIE_PURCHASE", "IN_APP_PURCHASE", "STREAMING_SUBSCRIPTION",
     "SOFTWARE_SUBSCRIPTION", "SERVICE_SUBSCRIPTION", "INDIVIDUAL_SUBSCRIPTION",
     "IN_APP_MOVIE_RENTAL", "UNKNOWN"}

SubscriptionFrequencies == {"MONTHLY", "SEMI_ANNUAL", "ANNUAL", "FREQ_UNKNOWN"}

TAXABLE_ITEM_TYPES ==
    {"IN_APP_PURCHASE", "SOFTWARE_SUBSCRIPTION", "SERVICE_SUBSCRIPTION"}

STREAMING_SUBSCRIPTIONS ==
    {"max standard", "max ad-free", "hbo max ad-free", "starz"}

SOFTWARE_SUBSCRIPTIONS ==
    {"copilot: track & budget money", "bumble - dating. friends. bizz",
     "coffee meets bagel dating app", "hinge dating app: meet people",
     "noom: healthy weight loss", "paramount+", "snapchat"}

SERVICE_SUBSCRIPTIONS == {"family", "premier", "apple news+"}

APPLE_ONE_SUBSCRIPTION_LEVELS == {"individual", "family", "premier"}

INDIVIDUAL_SUBSCRIPTIONS ==
    {"nyt games: word, number, logic", "bumble - dating. friends. bizz",
     "coffee meets bagel dating app", "hinge dating app: meet people",
     "paramount+", "snapchat"}

(* Item.stream_desc / Item.srvc_desc *)

stream_desc(desc) ==
    Replace(Replace(Replace(desc, " monthly", ""), " (monthly)", ""),
            " (automatic renewal)", "")

srvc_desc(desc) ==
    Replace(Replace(Replace(desc, " monthly", ""), " (automatic renewal)", ""),
            NBSP, " ")

(* Item.determine_item_type: the rule chain, first match wins *)

determine_item_type_swapped(lst) ==
    LET desc_len == Len(lst) IN
    IF desc_len = 4 /\ At(lst, 2) = "movie rental" THEN "MOVIE_RENTAL"
    ELSE IF desc_len = 4 /\ At(lst, 2) = "movie" THEN "MOVIE_PURCHASE"
    ELSE IF desc_len = 4 /\ At(lst, 2) = "in-app purchase" THEN "IN_APP_PURCHASE"
    ELSE IF desc_len = 3 /\ At(lst, 1) = "in-app purchase" THEN "IN_APP_MOVIE_RENTAL"
    ELSE IF desc_len = 3 /\ StartsWith(At(lst, 2), "renews")
            /\ At(lst, 0) \in SOFTWARE_SUBSCRIPTIONS THEN "SOFTWARE_SUBSCRIPTION"
    ELSE IF desc_len = 3 /\ StartsWith(At(lst, 2), "renews")
            /\ stream_desc(At(lst, 1)) \in STREAMING_SUBSCRIPTIONS THEN "STREAMING_SUBSCRIPTION"
    ELSE IF desc_len = 3 /\ StartsWith(At(lst, 2), "renews")
            /\ srvc_desc(At(lst, 0)) \in SERVICE_SUBSCRIPTIONS THEN "SERVICE_SUBSCRIPTION"
    ELSE IF desc_len = 4 /\ StartsWith(At(lst, 2), "renews")
            /\ At(lst, 0) \in INDIVIDUAL_SUBSCRIPTIONS THEN "INDIVIDUAL_SUBSCRIPTION"
    ELSE "UNKNOWN"

determine_item_type(lst) ==
    LET desc_len == Len(lst) IN
    IF desc_len = 4 /\ At(lst, 2) = "movie rental" THEN "MOVIE_RENTAL"
    ELSE IF desc_len = 4 /\ At(lst, 2) = "movie" THEN "MOVIE_PURCHASE"
    ELSE IF desc_len = 4 /\ At(lst, 2) = "in-app purchase" THEN "IN_APP_PURCHASE"
    ELSE IF desc_len = 3 /\ At(lst, 1) = "in-app purchase" THEN "IN_APP_MOVIE_RENTAL"
    ELSE IF desc_len = 3 /\ StartsWith(At(lst, 2), "renews")
            /\ stream_desc(At(lst, 1)) \in STREAMING_SUBSCRIPTIONS THEN "STREAMING_SUBSCRIPTION"
    ELSE IF desc_len = 3 /\ StartsWith(At(lst, 2), "renews")
            /\ At(lst, 0) \in SOFTWARE_SUBSCRIPTIONS THEN "SOFTWARE_SUBSCRIPTION"
    ELSE IF desc_len = 3 /\ StartsWith(At(lst, 2), "renews")
            /\ srvc_desc(At(lst, 0)) \in SERVICE_SUBSCRIPTIONS THEN "SERVICE_SUBSCRIPTION"
    ELSE IF desc_len = 4 /\ StartsWith(At(lst, 2), "renews")
            /\ At(lst, 0) \in INDIVIDUAL_SUBSCRIPTIONS THEN "INDIVIDUAL_SUBSCRIPTION"
    ELSE "UNKNOWN"

(* Item.determine_description_1 .. determine_device; "ValueError" is the       *)
(* 'Unexpected item type' failure of the closing else branch                   *)

determine_description_1_first(item_type, lst) ==
    IF item_type \in ItemTypes THEN At(lst, 0) ELSE "ValueError"

determine_description_1(item_type, lst) ==
    IF item_type = "STREAMING_SUBSCRIPTION" THEN
        LET sd == stream_desc(At(lst, 0)) IN
        IF Contains(sd, ":") THEN Strip(BeforeColon(sd))
        ELSE IF Contains(sd, "apple tv") THEN stream_desc(At(lst, 1))
        ELSE sd
    ELSE IF item_type \in {"SOFTWARE_SUBSCRIPTION", "INDIVIDUAL_SUBSCRIPTION"} THEN
        IF Contains(At(lst, 0), ":") THEN Strip(BeforeColon(At(lst, 0)))
        ELSE At(lst, 0)
    ELSE IF item_type = "SERVICE_SUBSCRIPTION" THEN
        LET sd == srvc_desc(At(lst, 0)) IN
        IF sd \in APPLE_ONE_SUBSCRIPTION_LEVELS THEN "apple one" ELSE sd
    ELSE IF item_type \in {"MOVIE_RENTAL", "MOVIE_PURCHASE", "IN_APP_PURCHASE",
                           "IN_APP_MOVIE_RENTAL", "UNKNOWN"} THEN
        At(lst, 0)
    ELSE "ValueError"

\* "|".join(lst[from:]) with from a one-based position
RECURSIVE JoinBar(_, _)
JoinBar(lst, from) ==
    IF from > Len(lst) THEN ""
    ELSE IF from = Len(lst) THEN lst[from]
    ELSE lst[from] \o "|" \o JoinBar(lst, from + 1)

determine_description_2(item_type, lst) ==
    IF item_type \in {"MOVIE_RENTAL", "MOVIE_PURCHASE", "IN_APP_PURCHASE"} THEN At(lst, 1)
    ELSE IF item_type = "STREAMING_SUBSCRIPTION" THEN
        LET sd == stream_desc(At(lst, 0)) IN
        IF Contains(sd, ":") THEN Strip(AfterColon(sd)) ELSE None
    ELSE IF item_type \in {"SOFTWARE_SUBSCRIPTION", "INDIVIDUAL_SUBSCRIPTION"} THEN
        IF Contains(At(lst, 0), ":") THEN Strip(AfterColon(At(lst, 0))) ELSE None
    ELSE IF item_type = "SERVICE_SUBSCRIPTION" THEN
        LET sd == srvc_desc(At(lst, 0)) IN
        IF sd \in APPLE_ONE_SUBSCRIPTION_LEVELS THEN sd ELSE None
    ELSE IF item_type = "UNKNOWN" THEN JoinBar(lst, 2)
    ELSE IF item_type = "IN_APP_MOVIE_RENTAL" THEN None
    ELSE "ValueError"

determine_subscription_frequency_annual_first(item_type, lst) ==
    IF item_type \in {"STREAMING_SUBSCRIPTION", "SOFTWARE_SUBSCRIPTION",
                      "SERVICE_SUBSCRIPTION", "INDIVIDUAL_SUBSCRIPTION"} THEN
        IF Contains(At(lst, 1), "(annual)") \/ Contains(At(lst, 1), "(yearly)")
            THEN "ANNUAL"
        ELSE IF Contains(At(lst, 1), "6 month") THEN "SEMI_ANNUAL"
        ELSE IF Contains(At(lst, 1), "monthly") THEN "MONTHLY"
        ELSE "FREQ_UNKNOWN"
    ELSE IF item_type \in {"MOVIE_RENTAL", "MOVIE_PURCHASE", "IN_APP_PURCHASE",
                           "IN_APP_MOVIE_RENTAL", "UNKNOWN"} THEN None
    ELSE "ValueError"

determine_subscription_frequency(item_type, lst) ==
    IF item_type \in {"STREAMING_SUBSCRIPTION", "SOFTWARE_SUBSCRIPTION",
                      "SERVICE_SUBSCRIPTION", "INDIVIDUAL_SUBSCRIPTION"} THEN
        IF Contains(At(lst, 1), "(monthly)") \/ Contains(At(lst, 1), "monthly") THEN "MONTHLY"
        ELSE IF Contains(At(lst, 1), "6 month") THEN "SEMI_ANNUAL"
        ELSE IF Contains(At(lst, 1), "(annual)") \/ Contains(At(lst, 1), "(yearly)")
            THEN "ANNUAL"
        ELSE "FREQ_UNKNOWN"
    ELSE IF item_type \in {"MOVIE_RENTAL", "MOVIE_PURCHASE", "IN_APP_PURCHASE",
                           "IN_APP_MOVIE_RENTAL", "UNKNOWN"} THEN None
    ELSE "ValueError"

\* texts dateutil.parser.parse accepts (the library is outside the repository);
\* the parsed date is represented by the accepted text
ParsableDates == {"march 24, 2025", "february 12, 2026", "dec 18, 2024", "sep 24, 2025"}

determine_renewal_date_no_unknown(item_type, lst) ==
    IF item_type \in {"STREAMING_SUBSCRIPTION", "SOFTWARE_SUBSCRIPTION",
                      "SERVICE_SUBSCRIPTION", "INDIVIDUAL_SUBSCRIPTION"} THEN
        LET txt == From(At(lst, 2), 8) IN
        IF txt \in ParsableDates THEN txt ELSE None
    ELSE IF item_type \in {"MOVIE_RENTAL", "MOVIE_PURCHASE", "IN_APP_PURCHASE",
                           "IN_APP_MOVIE_RENTAL"} THEN None
    ELSE "ValueError"

determine_renewal_date(item_type, lst) ==
    IF item_type \in {"STREAMING_SUBSCRIPTION", "SOFTWARE_SUBSCRIPTION",
                      "SERVICE_SUBSCRIPTION", "INDIVIDUAL_SUBSCRIPTION"} THEN
        LET txt == From(At(lst, 2), 8) IN     \* desc_lst[2][7:]
        IF txt \in ParsableDates THEN txt ELSE None
    ELSE IF item_type \in {"MOVIE_RENTAL", "MOVIE_PURCHASE", "IN_APP_PURCHASE",
                           "IN_APP_MOVIE_RENTAL", "UNKNOWN"} THEN None
    ELSE "ValueError"

determine_device_third(item_type, lst) ==
    IF item_type \in {"MOVIE_RENTAL", "MOVIE_PURCHASE", "IN_APP_PURCHASE",
                      "INDIVIDUAL_SUBSCRIPTION", "IN_APP_MOVIE_RENTAL"} THEN At(lst, 2)
    ELSE IF item_type \in {"STREAMING_SUBSCRIPTION", "SOFTWARE_SUBSCRIPTION",
                           "SERVICE_SUBSCRIPTION", "UNKNOWN"} THEN None
    ELSE "ValueError"

determine_device(item_type, lst) ==
    IF item_type \in {"MOVIE_RENTAL", "MOVIE_PURCHASE", "IN_APP_PURCHASE",
                      "INDIVIDUAL_SUBSCRIPTION"} THEN At(lst, 3)
    ELSE IF item_type = "IN_APP_MOVIE_RENTAL" THEN At(lst, 2)
    ELSE IF item_type \in {"STREAMING_SUBSCRIPTION", "SOFTWARE_SUBSCRIPTION",
                           "SERVICE_SUBSCRIPTION", "UNKNOWN"} THEN None
    ELSE "ValueError"

\* self.taxable = self.item_type in TAXABLE_ITEM_TYPES
IsTaxable_subscriptions(item_type) ==
    item_type \in TAXABLE_ITEM_TYPES \cup {"INDIVIDUAL_SUBSCRIPTION"}

IsTaxable(item_type) == item_type \in TAXABLE_ITEM_TYPES

(* Item.__init__: the constructed Item, or the exception it raises.  The only  *)
(* index a derivation reads beyond what classification guarantees is           *)
(* desc_lst[0] of an UNKNOWN item with an empty list (IndexError).            *)

ItemError(exc) == [kind |-> "Error", exc |-> exc]

Item__init__(item_category, description_list, purchase_amount, other_amount, image_url) ==
    LET lst == LowerAll(description_list)
        item_type == determine_item_type(lst)
    IN  IF Len(lst) = 0 THEN ItemError("IndexError")
        ELSE
        [kind |-> "Item",
         item_category |-> item_category,
         purchase_amount |-> purchase_amount,
         other_amount |-> other_amount,
         image_url |-> image_url,
         tax_applied |-> 0,
         total_amount |-> 0,
         item_type |-> item_type,
         description_1 |-> determine_description_1(item_type, lst),
         description_2 |-> determine_description_2(item_type, lst),
         subscription_frequency |-> determine_subscription_frequency(item_type, lst),
         next_renewal_date |-> determine_renewal_date(item_type, lst),
         device |-> determine_device(item_type, lst),
         taxable |-> IsTaxable(item_type)]

(* Decimal arithmetic *)

\* tax rates are counted in units of 1/RateScale
RateScale == 100000000

Abs(x) == IF x < 0 THEN -x ELSE x

Sign(x) == IF x < 0 THEN -1 ELSE 1

\* round-half-up(p * r / RateScale) for p, r >= 0, computed in two halves of r
\* so that no intermediate product leaves the 32-bit range
HalfUpDown(p, r) ==
    LET rh == r \div 10000
        rl == r % 10000
    IN  ((p * rh) + ((p * rl + (RateScale \div 2) - 1) \div 10000)) \div 10000

HalfUp(p, r) ==
    LET rh == r \div 10000
        rl == r % 10000
    IN  ((p * rh) + ((p * rl + (RateScale \div 2)) \div 10000)) \div 10000

\* Item.calc_tax: (purchase_amount * tax_rate).quantize(Decimal("0.01"), ROUND_HALF_UP);
\* ROUND_HALF_UP rounds ties away from zero
calc_tax(purchase_amount, rate) ==
    Sign(purchase_amount) * Sign(rate) * HalfUp(Abs(purchase_amount), Abs(rate))

(* Item.apply_tax / Item.adjust_tax *)

apply_tax_accumulate(it, rate) ==
    LET t == IF it.taxable THEN it.tax_applied + calc_tax(it.purchase_amount, rate)
             ELSE it.tax_applied
    IN  [it EXCEPT !.tax_applied = t, !.total_amount = it.purchase_amount + t]

\* the item after the call; the value returned is its tax_applied
apply_tax(it, rate) ==
    LET t == IF it.taxable THEN calc_tax(it.purchase_amount, rate) ELSE 0
    IN  [it EXCEPT !.tax_applied = t, !.total_amount = it.purchase_amount + t]

adjust_tax_total_only(it, tax_adjustment) ==
    [it EXCEPT !.total_amount = @ + tax_adjustment]

adjust_tax_tax_only(it, tax_adjustment) ==
    [it EXCEPT !.tax_applied = @ + tax_adjustment]

adjust_tax_marks_taxable(it, tax_adjustment) ==
    [it EXCEPT !.tax_applied = @ + tax_adjustment,
               !.total_amount = @ + tax_adjustment,
               !.taxable = TRUE]

adjust_tax(it, tax_adjustment) ==
    [it EXCEPT !.tax_applied = @ + tax_adjustment,
               !.total_amount = @ + tax_adjustment]

(* Receipt *)

\* Receipt.add_item
add_item_front(r, it) == [r EXCEPT !.items = <<it>> \o @]

add_item(r, it) == [r EXCEPT !.items = Append(@, it)]

RECURSIVE SumSeq(_)
SumSeq(q) == IF q = <<>> THEN 0 ELSE Head(q) + SumSeq(Tail(q))

\* next((i for i, v in enumerate(q) if v == x), None), one-based, 0 for None
RECURSIVE FirstIndexEq(_, _, _)
FirstIndexEq(q, x, i) ==
    IF i > Len(q) THEN 0 ELSE IF q[i] = x THEN i ELSE FirstIndexEq(q, x, i + 1)

\* next((i for i, v in enumerate(q) if v != x), None), one-based, 0 for None
RECURSIVE FirstIndexNe(_, _, _)
FirstIndexNe(q, x, i) ==
    IF i > Len(q) THEN 0 ELSE IF q[i] # x THEN i ELSE FirstIndexNe(q, x, i + 1)

RECURSIVE LastIndexNe(_, _, _)
LastIndexNe(q, x, i) ==
    IF i < 1 THEN 0 ELSE IF q[i] # x THEN i ELSE LastIndexNe(q, x, i - 1)

\* items_tax_calc = [item.apply_tax(self.tax_rate) for item in self.items]:
\* the items after the calls; items_tax_calc[i] is their tax_applied
ApplyAll(items, rate) == [i \in 1..Len(items) |-> apply_tax(items[i], rate)]

TaxesOf(items) == [i \in 1..Len(items) |-> items[i].tax_applied]

\* items_tax_calc_ovrd = [item.calc_tax(self.tax_rate) for item in self.items]
CalcAll(items, rate) ==
    [i \in 1..Len(items) |-> calc_tax(items[i].purchase_amount, rate)]

\* index of the item that accounts for the entire tax, 0 for None
AccountableIndex_flagged(items, rate, tax) ==
    FirstIndexEq(TaxesOf(ApplyAll(items, rate)), tax, 1)

AccountableIndex_guess(items, rate, tax) ==
    LET k == FirstIndexEq(CalcAll(items, rate), tax, 1)
    IN  IF k = 0 /\ Len(items) > 0 THEN 1 ELSE k

AccountableIndex_last(items, rate, tax) ==
    LET m == {i \in 1..Len(items) : CalcAll(items, rate)[i] = tax}
    IN  IF m = {} THEN 0 ELSE CHOOSE i \in m : \A j \in m : j <= i

AccountableIndex(items, rate, tax) ==
    FirstIndexEq(CalcAll(items, rate), tax, 1)

\* index of the first item with a non-zero tax amount, 0 for None
AdjustIndex_last(items_tax_calc) ==
    LastIndexNe(items_tax_calc, 0, Len(items_tax_calc))

AdjustIndex_second(items_tax_calc) == FirstIndexNe(items_tax_calc, 0, 2)

AdjustIndex(items_tax_calc) == FirstIndexNe(items_tax_calc, 0, 1)

\* sum(1 for item_tax_amt in items_tax_calc if item_tax_amt)
NumberOfTaxableItems(items_tax_calc) ==
    Cardinality({i \in 1..Len(items_tax_calc) : items_tax_calc[i] # 0})

\* the threshold of $0.04, in cents
TaxAdjThreshold == 4

Significant_never(tax_adj) == FALSE

Significant_signed(tax_adj) == tax_adj > TaxAdjThreshold

\* abs(tax_adj) > Decimal("0.04")
Significant(tax_adj) == Abs(tax_adj) > TaxAdjThreshold

ErrNoAccountableItem == "ValueError: no one item accounts for the entire tax amount"
ErrNothingToAdjust == "ValueError: could not determine which item to apply the adjustment to"
ErrSignificantAdjustment == "ValueError: significant tax adjustment, more than one taxable item"

\* self.subtotal = self.subtotal or self.total - self.tax
DerivedSubtotal_always(subtotal, total, tax) == total - tax

DerivedSubtotal(subtotal, total, tax) ==
    IF subtotal # 0 THEN subtotal ELSE total - tax

\* Receipt.apply_tax_to_items: the receipt after the call and the exception
\* raised (NoErr when it returns), with the values its message interpolates.
\* When it raises, every item has already been through apply_tax, and the
\* subtotal has not been set.
apply_tax_to_items(r, rate) ==
    LET applied == ApplyAll(r.items, rate)
        items_tax_calc == TaxesOf(applied)
        total_tax_calc == SumSeq(items_tax_calc)
        raised(e, d) ==
            [receipt |-> [r EXCEPT !.items = applied], err |-> e, detail |-> d]
        returned(its) ==
            [receipt |-> [r EXCEPT !.items = its,
                                   !.subtotal = DerivedSubtotal(@, r.total, r.tax)],
             err |-> NoErr, detail |-> <<>>]
    IN  IF r.tax # 0 /\ total_tax_calc = 0 THEN
            LET k == AccountableIndex(r.items, rate, r.tax) IN
            IF k = 0 THEN raised(ErrNoAccountableItem, [tax |-> r.tax])
            ELSE returned([applied EXCEPT ![k] = adjust_tax(@, r.tax)])
        ELSE
            LET tax_adj == r.tax - total_tax_calc IN
            IF tax_adj # 0 THEN
                LET k == AdjustIndex(items_tax_calc) IN
                IF k = 0 THEN
                    raised(ErrNothingToAdjust,
                           [tax_adj |-> tax_adj, tax |-> r.tax,
                            total_tax_calc |-> total_tax_calc,
                            items_tax_calc |-> items_tax_calc])
                ELSE IF Significant(tax_adj) /\ NumberOfTaxableItems(items_tax_calc) > 1
                    THEN raised(ErrSignificantAdjustment,
                                [tax_adj |-> tax_adj,
                                 number_of_taxable_items |->
                                     NumberOfTaxableItems(items_tax_calc)])
                ELSE returned([applied EXCEPT ![k] = adjust_tax(@, tax_adj)])
            ELSE returned(applied)

\* Receipt.__init__: the receipt built and the exception raised; a receipt
\* given items is reconciled at once, one given none (items=None) is not
Receipt__init___always(soup, receipt_date, order_id, subtotal, tax, total, items, rate) ==
    LET r == [kind |-> "Receipt", soup |-> soup, receipt_date |-> receipt_date,
              order_id |-> order_id, subtotal |-> subtotal, tax |-> tax,
              total |-> total, file_path |-> None, items |-> items]
    IN  apply_tax_to_items(r, rate) @@ [applied |-> TRUE]

Receipt__init__(soup, receipt_date, order_id, subtotal, tax, total, items, rate) ==
    LET r == [kind |-> "Receipt", soup |-> soup, receipt_date |-> receipt_date,
              order_id |-> order_id, subtotal |-> subtotal, tax |-> tax,
              total |-> total, file_path |-> None, items |-> items]
    IN  IF items # <<>> THEN apply_tax_to_items(r, rate) @@ [applied |-> TRUE]
        ELSE [receipt |-> r, err |-> NoErr, applied |-> FALSE]

(* ------------------------------------------------------------------------ *)
(* Inputs                                                                    *)

\* longest description list explored by SpecClassify
MaxFrags == 4

\* fragments as the extractors deliver them (before lower())
Vocabulary ==
    {"Movie Rental", "Movie", "In-App Purchase", "Renews March 24, 2025",
     "Max Standard Monthly (Monthly)", "Snapchat", "Premier (Automatic Renewal)"}

FragLists == UNION {[1..n -> Vocabulary] : n \in 0..MaxFrags}

\* the description lists of tests/test_item.py::test_determine_item_type
SampleLists ==
    {<<"Blink Twice", "Thriller", "Movie Rental", "Device A">>,
     <<"Heretic", "Thriller", "Movie", "Device B">>,
     <<"Gardenscapes", "Botanist Kit", "In-App Purchase", "Device C">>,
     <<"Max: Stream HBO, TV, & Movies", "Max Standard Monthly (Monthly)",
       "Renews March 24, 2025">>,
     <<"Copilot: Track & Budget Money", "Yearly subscription (Annual)",
       "Renews February 12, 2026">>,
     <<"Premier (Automatic Renewal)", "Premier (Automatic Renewal) (Monthly)",
       "Renews Dec 18, 2024">>,
     <<"NYT Games: Word, Number, Logic", "Games - Annual (Yearly)",
       "Renews Sep 24, 2025", "Device G">>,
     <<"Dr. Seuss' How the Grinch Stol", "In-App Purchase", "Device H">>,
     <<"unknown 1", "unknown 2", "unknown 3", "unknown 4">>}

\* purchase amounts (cents) and rates of the Item-level calls
ItemAmounts == {125, 199, 1000}
ItemRates == {8000000, 10000000, 3333333}
Adjustments == {-50, 1, 50}

\* number of apply_tax / adjust_tax calls made on one Item
MaxItemOps == 3

NoRet == [op |-> "none"]

IdleItem == desc_lst = <<>> /\ item = NoItem /\ ret = NoRet /\ ops = 0
IdleTax == receipt = NoReceipt /\ tax_rate = 0 /\ err = NoErr
IdleBatch ==
    /\ inbox = 0 /\ dto = NoDto /\ pending = <<>> /\ headers = <<>>
    /\ details = <<>> /\ files = {} /\ calls = <<>>
    /\ doc = NoDoc /\ parser = None

taxVars == <<receipt, tax_rate, err>>
docVars == <<doc, parser>>
batchVars == <<inbox, dto, pending, headers, details, files, calls, docVars>>

(* ------------------------------------------------------------------------ *)
(* Item: construction, classification, apply_tax, adjust_tax                 *)

\* Item(item_category, description_list, purchase_amount, other_amount, image_url)
NewItem ==
    /\ pc = "item"
    /\ item = NoItem
    /\ \E p \in ItemAmounts :
         item' = Item__init__("app", desc_lst, p, 0, "url")
    /\ UNCHANGED <<desc_lst, ret, ops, pc, taxVars, batchVars>>

\* determine_item_type called on its own with a lower-cased list
CallDetermineItemType ==
    /\ pc = "item"
    /\ ret = NoRet
    /\ ret' = [op |-> "determine_item_type",
               value |-> determine_item_type(LowerAll(desc_lst))]
    /\ UNCHANGED <<desc_lst, item, ops, pc, taxVars, batchVars>>

\* item.apply_tax(rate)
ItemApplyTax ==
    /\ item.kind = "Item"
    /\ ops < MaxItemOps
    /\ \E rate \in ItemRates :
         /\ item' = apply_tax(item, rate)
         /\ ret' = [op |-> "apply_tax", arg |-> rate, value |-> item'.tax_applied,
                    tax_before |-> item.tax_applied, total_before |-> item.total_amount]
    /\ ops' = ops + 1
    /\ UNCHANGED <<desc_lst, pc, taxVars, batchVars>>

\* item.adjust_tax(adj)
ItemAdjustTax ==
    /\ item.kind = "Item"
    /\ ops < MaxItemOps
    /\ \E adj \in Adjustments :
         /\ item' = adjust_tax(item, adj)
         /\ ret' = [op |-> "adjust_tax", arg |-> adj, value |-> None,
                    tax_before |-> item.tax_applied, total_before |-> item.total_amount]
    /\ ops' = ops + 1
    /\ UNCHANGED <<desc_lst, pc, taxVars, batchVars>>

InitClassify ==
    /\ desc_lst \in FragLists
    /\ item = NoItem /\ ret = NoRet /\ ops = 0
    /\ pc = "item"
    /\ IdleTax /\ IdleBatch

NextClassify == NewItem \/ CallDetermineItemType

SpecClassify == InitClassify /\ [][NextClassify]_vars

\* second fragments (the cadence fragment) of the lists below
CadenceFragments ==
    {"Max Standard Monthly (Monthly)", "(monthly)", "6 Month Plan billed Monthly",
     "6 Month Pass (Annual)", "Yearly subscription (Annual)",
     "Games - Annual (Yearly)", "Annual Plan", ""}

\* the subscription lists and the rental list of tests/test_item.py with every
\* cadence fragment in second place
CadenceLists ==
    UNION {{<<"Max: Stream HBO, TV, & Movies", x, "Renews March 24, 2025">>,
            <<"Copilot: Track & Budget Money", x, "Renews February 12, 2026">>,
            <<"Premier (Automatic Renewal)", x, "Renews Dec 18, 2024">>,
            <<"NYT Games: Word, Number, Logic", x, "Renews Sep 24, 2025", "Device G">>,
            <<"Blink Twice", x, "Movie Rental", "Device A">>} :
           x \in CadenceFragments}

\* determine_subscription_frequency called on its own, the item type set by
\* hand as in tests/test_item.py
CallDetermineSubscriptionFrequency ==
    /\ pc = "item"
    /\ ret = NoRet
    /\ Len(desc_lst) >= 2
    /\ \E t \in ItemTypes :
         ret' = [op |-> "determine_subscription_frequency", item_type |-> t,
                 value |-> determine_subscription_frequency(t, LowerAll(desc_lst))]
    /\ UNCHANGED <<desc_lst, item, ops, pc, taxVars, batchVars>>

InitCadence ==
    /\ desc_lst \in CadenceLists
    /\ item = NoItem /\ ret = NoRet /\ ops = 0
    /\ pc = "item"
    /\ IdleTax /\ IdleBatch

NextCadence == NewItem \/ CallDetermineSubscriptionFrequency

SpecCadence == InitCadence /\ [][NextCadence]_vars

InitItemTax ==
    /\ desc_lst \in SampleLists
    /\ item = NoItem /\ ret = NoRet /\ ops = 0
    /\ pc = "item"
    /\ IdleTax /\ IdleBatch

NextItemTax == NewItem \/ ItemApplyTax \/ ItemAdjustTax

SpecItemTax == InitItemTax /\ [][NextItemTax]_vars

\* first and second fragments of subscription lines: with and without a colon,
\* with the cadence and automatic-renewal annotations, with a non-breaking
\* space, an Apple TV channel line, a tier name
DeriveFirsts ==
    {"Max: Stream HBO, TV, & Movies", "Apple TV", "Starz", "Snapchat",
     "Snapchat (Automatic Renewal)", "Snapchat Monthly", "Paramount+",
     "Copilot: Track & Budget Money", "Premier (Automatic Renewal)", "Family",
     "Apple News+", "Apple" \o NBSP \o "News+", "NYT Games: Word, Number, Logic"}

DeriveSeconds ==
    {"Starz (Monthly)", "Starz", "Max" \o NBSP \o "Standard",
     "Yearly subscription (Annual)", "In-App Purchase"}

\* the lists of tests/test_item.py, three- and four-fragment subscription
\* lines built from the fragments above, and the empty list
DeriveLists ==
    SampleLists
    \cup {<<a, b, "Renews March 24, 2025">> : a \in DeriveFirsts, b \in DeriveSeconds}
    \cup {<<a, b, "Renews Sep 24, 2025", "Device G">> :
              a \in DeriveFirsts, b \in DeriveSeconds}
    \cup {<<>>}

\* values item.item_type can be set to by hand: the members of ItemType and
\* one value that is no member
HandSetTypes == ItemTypes \cup {None}

\* a derivation called on its own reads desc_lst[0..3] at most; with the list's
\* own type it reads only positions the classification has checked
InRange(t) ==
    \/ Len(desc_lst) = 4
    \/ Len(desc_lst) > 0 /\ t = determine_item_type(LowerAll(desc_lst))

\* item.item_type = t; item.determine_description_1(desc_lst)
CallDetermineDescription1 ==
    /\ pc = "item"
    /\ ret = NoRet
    /\ \E t \in HandSetTypes :
         /\ InRange(t)
         /\ ret' = [op |-> "determine_description_1", item_type |-> t,
                    value |-> determine_description_1(t, desc_lst)]
    /\ UNCHANGED <<desc_lst, item, ops, pc, taxVars, batchVars>>

\* item.item_type = t; item.determine_description_2(desc_lst)
CallDetermineDescription2 ==
    /\ pc = "item"
    /\ ret = NoRet
    /\ \E t \in HandSetTypes :
         /\ InRange(t)
         /\ ret' = [op |-> "determine_description_2", item_type |-> t,
                    value |-> determine_description_2(t, desc_lst)]
    /\ UNCHANGED <<desc_lst, item, ops, pc, taxVars, batchVars>>

\* item.item_type = t; item.determine_subscription_frequency(desc_lst)
CallDetermineFrequency ==
    /\ pc = "item"
    /\ ret = NoRet
    /\ \E t \in HandSetTypes :
         /\ InRange(t)
         /\ ret' = [op |-> "determine_subscription_frequency", item_type |-> t,
                    value |-> determine_subscription_frequency(t, desc_lst)]
    /\ UNCHANGED <<desc_lst, item, ops, pc, taxVars, batchVars>>

\* item.item_type = t; item.determine_renewal_date(desc_lst)
CallDetermineRenewalDate ==
    /\ pc = "item"
    /\ ret = NoRet
    /\ \E t \in HandSetTypes :
         /\ InRange(t)
         /\ ret' = [op |-> "determine_renewal_date", item_type |-> t,
                    value |-> determine_renewal_date(t, desc_lst)]
    /\ UNCHANGED <<desc_lst, item, ops, pc, taxVars, batchVars>>

\* item.item_type = t; item.determine_device(desc_lst)
CallDetermineDevice ==
    /\ pc = "item"
    /\ ret = NoRet
    /\ \E t \in HandSetTypes :
         /\ InRange(t)
         /\ ret' = [op |-> "determine_device", item_type |-> t,
                    value |-> determine_device(t, desc_lst)]
    /\ UNCHANGED <<desc_lst, item, ops, pc, taxVars, batchVars>>

InitDerive ==
    /\ desc_lst \in DeriveLists
    /\ item = NoItem /\ ret = NoRet /\ ops = 0
    /\ pc = "item"
    /\ IdleTax /\ IdleBatch

NextDerive ==
    \/ NewItem
    \/ CallDetermineItemType
    \/ CallDetermineDescription1
    \/ CallDetermineDescription2
    \/ CallDetermineFrequency
    \/ CallDetermineRenewalDate
    \/ CallDetermineDevice

SpecDerive == InitDerive /\ [][NextDerive]_vars

(* ------------------------------------------------------------------------ *)
(* Receipt: items attached one at a time, then reconciled                    *)

\* most items on one receipt
MaxItems == 4

\* a non-taxable and a taxable description list (tests/test_receipt.py)
TaxLists ==
    {<<"Blink Twice", "Thriller", "Movie Rental", "Device A">>,
     <<"Gardenscapes", "Botanist Kit", "In-App Purchase", "Device C">>}

TaxAmounts == {0, 13, 1000, 1500, 2500}

\* the items attached: the rental at 15.00, the in-app purchase at 0.00, 0.13,
\* 10.00 or 25.00
TaxItemInputs ==
    {x \in TaxLists \X TaxAmounts :
        IF x[1][3] = "Movie Rental" THEN x[2] = 1500
        ELSE x[2] \in {0, 13, 1000, 2500}}
Taxes == {0, 80, 120, 200, 480}
Subtotals == {0, 5000}
Rates == {8000000, 3333333}

\* Receipt.tax_rate = Decimal("0.08"), in units of 1/RateScale
DefaultTaxRate == 8000000

\* total of the receipts built here (tests/test_receipt.py: 52.80)
ReceiptTotal == 5280

\* receipt.add_item(Item(...)), before the receipt is reconciled
TaxAddItem ==
    /\ pc = "built"
    /\ Len(receipt.items) < MaxItems
    /\ \E x \in TaxItemInputs :
         receipt' = add_item(receipt, Item__init__("app", x[1], x[2], 0, "url"))
    /\ UNCHANGED <<desc_lst, item, ret, ops, tax_rate, err, pc, batchVars>>

\* most calls of apply_tax_to_items on one receipt
MaxRuns == 2

\* receipt.apply_tax_to_items(), also when called again on a reconciled
\* receipt; ret records the call: its number on this receipt, the receipt with
\* its subtotal and item amounts on entry, and the values interpolated into
\* the message of the exception raised
TaxApply ==
    /\ pc \in {"built", "reconciled"}
    /\ err = NoErr
    /\ pc = "reconciled" => ret.run < MaxRuns
    /\ LET res == apply_tax_to_items(receipt, tax_rate) IN
         /\ receipt' = res.receipt
         /\ err' = res.err
    /\ ret' = [op |-> "apply_tax_to_items",
               run |-> IF pc = "built" THEN 1 ELSE ret.run + 1,
               detail |-> apply_tax_to_items(receipt, tax_rate).detail,
               receipt_before |-> receipt,
               subtotal_before |-> receipt.subtotal,
               taxes_before |-> TaxesOf(receipt.items),
               totals_before |-> [i \in 1..Len(receipt.items) |->
                                     receipt.items[i].total_amount]]
    /\ pc' = "reconciled"
    /\ UNCHANGED <<desc_lst, item, ops, tax_rate, batchVars>>

InitReceipt ==
    /\ IdleItem /\ IdleBatch
    /\ tax_rate \in Rates
    /\ \E st \in Subtotals, tx \in Taxes :
         receipt = Receipt__init__("soup", "2023-11-01", "123456", st, tx,
                                   ReceiptTotal, <<>>, tax_rate).receipt
    /\ err = NoErr
    /\ pc = "built"

\* the Receipt-level and the Item-level calls side by side
InitTax == InitReceipt \/ InitItemTax

NextTax == TaxAddItem \/ TaxApply \/ NewItem \/ ItemApplyTax \/ ItemAdjustTax

SpecTax == InitTax /\ [][NextTax]_vars

(* ------------------------------------------------------------------------ *)
(* main(): the batch driver, one message after the other                     *)

\* messages returned by search_emails
MaxBatch == 2

\* most line items on one carrier record
MaxDocItems == 2

OrderIds == {"MK01", "MK02"}
DocTaxes == {0, 80}
DocAmounts == {1000}
BodyTypes == {"html", "plain_text"}

\* ItemEmail carrier records an extractor may deliver
ItemEmails ==
    {[item_category |-> "app", descriptions |-> d, purchase_amount |-> p,
      other_amount |-> 0, image_link |-> "url"] : d \in TaxLists, p \in DocAmounts}

\* ReceiptEmail carrier records receipt_email_factory may deliver: ParseFormat2
\* attaches the parsed document (soup), ParseFormat1 leaves it None
ReceiptEmails ==
    {[kind |-> "ReceiptEmail", soup |-> sp, receipt_date |-> "2023-11-01",
      order_id |-> o, subtotal |-> 5000, tax |-> tx, total |-> ReceiptTotal,
      items |-> its] :
        sp \in {"soup", None}, o \in OrderIds, tx \in DocTaxes,
        its \in UNION {[1..n -> ItemEmails] : n \in 0..MaxDocItems}}

ErrStructural == "structural error in receipt_email_factory"
ErrSave == "AttributeError: 'NoneType' object has no attribute 'prettify'"

\* Item.from_item_email
from_item_email(ie) ==
    Item__init__(IF ie.item_category = None THEN "none" ELSE ie.item_category,
                 ie.descriptions, ie.purchase_amount, ie.other_amount, ie.image_link)

\* Receipt.exists: the hdr_id of the first header row with the order id, 0 for None
exists_never(r, hdrs) == 0

exists(r, hdrs) == FirstIndexEq(hdrs, r.order_id, 1)

\* Receipt.save: the archive file path
FilePath(r) == r.order_id \o "_" \o r.receipt_date \o ".html"

\* for message in email_messages: a body that is not html is only reported
MainSkipNonHtml ==
    /\ pc = "loop" /\ inbox > 0
    /\ \E bt \in BodyTypes \ {"html"} : TRUE
    /\ inbox' = inbox - 1
    /\ UNCHANGED <<desc_lst, item, ret, ops, taxVars, pc, dto, pending, headers,
                   details, files, calls, docVars>>

\* the store as it is when a message is fetched, recorded in ret
Fetched == [op |-> "get_email_message_details", headers |-> headers,
            details |-> details, files |-> files]

\* receipt_email_dto = receipt_email_factory(html_body)
MainParse ==
    /\ pc = "loop" /\ inbox > 0
    /\ inbox' = inbox - 1
    /\ ret' = Fetched
    /\ dto' \in ReceiptEmails
    /\ pc' = "from_receipt_email"
    /\ UNCHANGED <<desc_lst, item, ops, taxVars, pending, headers, details,
                   files, calls, docVars>>

\* receipt_email_factory raises; main() has no handler, the exception ends it
MainParseFails ==
    /\ pc = "loop" /\ inbox > 0
    /\ inbox' = inbox - 1
    /\ ret' = Fetched
    /\ err' = ErrStructural
    /\ pc' = "crashed"
    /\ UNCHANGED <<desc_lst, item, ops, receipt, tax_rate, dto, pending,
                   headers, details, files, calls, docVars>>

\* the for loop is exhausted
MainDone ==
    /\ pc = "loop" /\ inbox = 0
    /\ pc' = "done"
    /\ UNCHANGED <<desc_lst, item, ret, ops, taxVars, batchVars>>

\* Receipt.from_receipt_email: receipt = Receipt(soup=..., ..., total=...)
FromReceiptEmailConstruct ==
    /\ pc = "from_receipt_email"
    /\ LET res == Receipt__init__(dto.soup, dto.receipt_date, dto.order_id,
                                  dto.subtotal, dto.tax, dto.total, <<>>, tax_rate)
       IN  /\ receipt' = res.receipt
           /\ err' = res.err
           /\ calls' = IF res.applied THEN <<"__init__", "apply_tax_to_items">>
                       ELSE <<"__init__">>
           /\ pc' = IF res.err = NoErr THEN "add_items" ELSE "crashed"
    /\ pending' = dto.items
    /\ UNCHANGED <<desc_lst, item, ret, ops, tax_rate, inbox, dto, headers,
                   details, files, docVars>>

\* for item_email_dto in receipt_email_dto.items:
\*     receipt.add_item(Item.from_item_email(item_email_dto))
FromReceiptEmailAddItem ==
    /\ pc = "add_items" /\ pending # <<>>
    /\ LET it == from_item_email(Head(pending)) IN
         IF it.kind = "Item"
         THEN /\ receipt' = add_item(receipt, it)
              /\ calls' = Append(calls, "add_item")
              /\ pending' = Tail(pending)
              /\ UNCHANGED <<err, pc>>
         ELSE /\ err' = it.exc
              /\ pc' = "crashed"
              /\ UNCHANGED <<receipt, calls, pending>>
    /\ UNCHANGED <<desc_lst, item, ret, ops, tax_rate, inbox, dto, headers,
                   details, files, docVars>>

\* receipt.apply_tax_to_items(); return receipt
FromReceiptEmailApply_archives ==
    /\ pc = "add_items" /\ pending = <<>>
    /\ LET res == apply_tax_to_items(receipt, tax_rate) IN
         /\ receipt' = res.receipt
         /\ err' = res.err
         /\ pc' = IF res.err = NoErr THEN "exists" ELSE "crashed"
    /\ calls' = Append(calls, "apply_tax_to_items")
    /\ files' = files \cup {FilePath(receipt)}
    /\ UNCHANGED <<desc_lst, item, ret, ops, tax_rate, inbox, dto, pending,
                   headers, details, docVars>>

FromReceiptEmailApply ==
    /\ pc = "add_items" /\ pending = <<>>
    /\ LET res == apply_tax_to_items(receipt, tax_rate) IN
         /\ receipt' = res.receipt
         /\ err' = res.err
         /\ pc' = IF res.err = NoErr THEN "exists" ELSE "crashed"
    /\ calls' = Append(calls, "apply_tax_to_items")
    /\ UNCHANGED <<desc_lst, item, ret, ops, tax_rate, inbox, dto, pending,
                   headers, details, files, docVars>>

\* if not receipt.exists(conn):
MainExists ==
    /\ pc = "exists"
    /\ calls' = Append(calls, "exists")
    /\ pc' = IF exists(receipt, headers) = 0 THEN "save" ELSE "loop"
    /\ UNCHANGED <<desc_lst, item, ret, ops, taxVars, inbox, dto, pending,
                   headers, details, files, docVars>>

\* receipt.save(apple_receipts)
MainSave ==
    /\ pc = "save"
    /\ calls' = Append(calls, "save")
    /\ IF receipt.soup = None
       THEN /\ err' = ErrSave
            /\ pc' = "crashed"
            /\ UNCHANGED <<receipt, files>>
       ELSE /\ files' = files \cup {FilePath(receipt)}
            /\ receipt' = [receipt EXCEPT !.file_path = FilePath(receipt)]
            /\ pc' = "insert"
            /\ UNCHANGED err
    /\ UNCHANGED <<desc_lst, item, ret, ops, tax_rate, inbox, dto, pending,
                   headers, details, docVars>>

\* receipt.insert(conn): the header row, one item_detail row per item, commit
MainInsert ==
    /\ pc = "insert"
    /\ calls' = Append(calls, "insert")
    /\ headers' = Append(headers, receipt.order_id)
    /\ details' = details \o [i \in 1..Len(receipt.items) |->
                                 [hdr_id |-> Len(headers) + 1]]
    /\ pc' = "loop"
    /\ UNCHANGED <<desc_lst, item, ret, ops, taxVars, inbox, dto, pending, files, docVars>>

\* the store left by earlier runs: empty, or holding order MK01 with one item
PriorStores ==
    {[headers |-> <<>>, details |-> <<>>, files |-> {}],
     [headers |-> <<"MK01">>, details |-> <<[hdr_id |-> 1]>>,
      files |-> {"MK01_2023-11-01.html"}]}

Init ==
    /\ IdleItem
    /\ receipt = NoReceipt /\ tax_rate = DefaultTaxRate /\ err = NoErr
    /\ pc = "loop"
    /\ inbox \in 1..MaxBatch
    /\ dto = NoDto /\ pending = <<>> /\ calls = <<>>
    /\ \E st \in PriorStores :
         headers = st.headers /\ details = st.details /\ files = st.files
    /\ doc = NoDoc /\ parser = None

Next ==
    \/ MainSkipNonHtml
    \/ MainParse
    \/ MainParseFails
    \/ MainDone
    \/ FromReceiptEmailConstruct
    \/ FromReceiptEmailAddItem
    \/ FromReceiptEmailApply
    \/ MainExists
    \/ MainSave
    \/ MainInsert

Spec == Init /\ [][Next]_vars

(* ------------------------------------------------------------------------ *)
(* receipt_email_factory: get_parser and the Variant A extractor             *)

\* most first-level child elements of the outermost div
MaxTopChildren == 2

\* most label / value pairs of a section
MaxFields == 2

PARSE_FMT_1_IND == "receipt"

\* soup.div when the document has no div at all
NoDiv == [kind |-> "NoDiv"]

\* tag.find_all("div", recursive=False): the child elements that are divs
IsDiv(c) == c.tag = "div"
TopDivs(children) == SelectSeq(children, IsDiv)

\* the strategy class selected, or the exception raised by soup.div.find_all
get_parser_exact(soup) ==
    IF soup.div = NoDiv THEN "AttributeError"
    ELSE LET top_divs == TopDivs(soup.div.children) IN
         IF top_divs # <<>> /\ top_divs[1].text = PARSE_FMT_1_IND
         THEN "ParseFormat1" ELSE "ParseFormat2"

get_parser_first_child(soup) ==
    IF soup.div = NoDiv THEN "AttributeError"
    ELSE LET top == soup.div.children IN
         IF top # <<>> /\ Lower(Strip(top[1].text)) = PARSE_FMT_1_IND
         THEN "ParseFormat1" ELSE "ParseFormat2"

get_parser(soup) ==
    IF soup.div = NoDiv THEN "AttributeError"
    ELSE LET top_divs == TopDivs(soup.div.children) IN
         IF top_divs # <<>> /\ Lower(Strip(top_divs[1].text)) = PARSE_FMT_1_IND
         THEN "ParseFormat1" ELSE "ParseFormat2"

\* ReceiptEmail(): every attribute None, no items; assigned is the set of
\* attributes set since (a Decimal attribute not in it is still None)
ReceiptEmail__init__ ==
    [kind |-> "ReceiptEmail", soup |-> None, receipt_date |-> None,
     order_id |-> None, doc_nbr |-> None, apple_account |-> None,
     subtotal |-> 0, tax |-> 0, card |-> None, total |-> 0,
     items |-> <<>>, assigned |-> {}]

\* ParseFormat1.FIELD_ATTR_SECTION_1 / FIELD_ATTR_SECTION_3
FIELD_ATTR_SECTION_1 ==
    [f \in {"order id", "document", "apple account"} |->
        CASE f = "order id" -> "order_id"
          [] f = "document" -> "doc_nbr"
          [] f = "apple account" -> "apple_account"]

FIELD_ATTR_SECTION_3 == [f \in {"subtotal", "tax"} |-> f]

\* date texts dateutil parses, with the date they denote
DateTexts ==
    [t \in {"November 1, 2023", "Nov 1, 2023"} |-> "2023-11-01"]

\* ParseFormat1.parse_date
parse_date(date_str) ==
    LET t == Strip(date_str) IN IF t \in DOMAIN DateTexts THEN DateTexts[t] ELSE None

Digits == "0123456789"
DigitValue(c) == CHOOSE d \in 0..9 : Char(Digits, d + 1) = c

RECURSIVE ParseDigits(_)
ParseDigits(s) ==
    IF s = "" THEN 0
    ELSE ParseDigits(SubSeq(s, 1, Len(s) - 1)) * 10 + DigitValue(Char(s, Len(s)))

\* Decimal(s) for a text of digits with at most two decimals, in cents
Decimal(s) ==
    LET k == FindFrom(s, ".", 1)
        whole == IF k = 0 THEN s ELSE SubSeq(s, 1, k - 1)
        frac == IF k = 0 THEN "" ELSE From(s, k + 1)
    IN  ParseDigits(whole) * 100 + ParseDigits(SubSeq(frac \o "00", 1, 2))

\* ParseFormat1.parse_decimal
parse_decimal(value_str) ==
    LET v == IF StartsWith(value_str, "$") THEN From(value_str, 2) ELSE value_str
    IN  Decimal(IF v = "" THEN "0.00" ELSE v)

\* dict(pairs): a later pair replaces an earlier one with the same key
DictOf(pairs) ==
    [k \in {pairs[i][1] : i \in 1..Len(pairs)} |->
        LET i == CHOOSE n \in 1..Len(pairs) :
                    /\ pairs[n][1] = k
                    /\ \A m \in (n + 1)..Len(pairs) : pairs[m][1] # k
        IN  pairs[i][2]]

\* d.get(k, default)
Get(d, k, default) == IF k \in DOMAIN d THEN d[k] ELSE default

\* s[:-1]
DropLast(s) == IF s = "" THEN "" ELSE SubSeq(s, 1, Len(s) - 1)

\* ParseFormat1.parse_sect_1_fields: the label is stripped, lower-cased and
\* loses its last character (the colon); the value is stripped
parse_sect_1_fields(section) ==
    DictOf([i \in 1..Len(section.fields) |->
              <<DropLast(Lower(Strip(section.fields[i][1]))),
                Strip(section.fields[i][2])>>])

\* ParseFormat1.parse_sect_3_fields: dict(zip(field_names, field_values))
parse_sect_3_fields(div_tag) ==
    LET n == IF Len(div_tag.names) < Len(div_tag.values)
             THEN Len(div_tag.names) ELSE Len(div_tag.values)
    IN  DictOf([i \in 1..n |->
                  <<Lower(Strip(div_tag.names[i])), Strip(div_tag.values[i])>>])

ErrSect1 == "ValueError: section 1 - one or more undefined attributes"
ErrSect3 == "ValueError: section 3 - one or more undefined attributes"

\* ParseFormat1.set_sect_1_attribs: the carrier record after the call and the
\* exception raised
set_sect_1_attribs_lenient(receipt_email, fields_names_values) ==
    [dto |-> [receipt_email EXCEPT
                 !.order_id = Get(fields_names_values, "order id", ""),
                 !.doc_nbr = Get(fields_names_values, "document", ""),
                 !.apple_account = Get(fields_names_values, "apple account", ""),
                 !.assigned = @ \cup {"order_id", "doc_nbr", "apple_account"}],
     err |-> NoErr]

set_sect_1_attribs(receipt_email, fields_names_values) ==
    LET invalid_fields == DOMAIN fields_names_values \ DOMAIN FIELD_ATTR_SECTION_1 IN
    IF invalid_fields # {} THEN [dto |-> receipt_email, err |-> ErrSect1]
    ELSE [dto |-> [receipt_email EXCEPT
                      !.order_id = Get(fields_names_values, "order id", ""),
                      !.doc_nbr = Get(fields_names_values, "document", ""),
                      !.apple_account = Get(fields_names_values, "apple account", ""),
                      !.assigned = @ \cup {"order_id", "doc_nbr", "apple_account"}],
          err |-> NoErr]

\* ParseFormat1.set_sect_3_attribs
set_sect_3_attribs(receipt_email, fields_names_values) ==
    LET invalid_fields == DOMAIN fields_names_values \ DOMAIN FIELD_ATTR_SECTION_3 IN
    IF invalid_fields # {} THEN [dto |-> receipt_email, err |-> ErrSect3]
    ELSE [dto |-> [receipt_email EXCEPT
                      !.subtotal = parse_decimal(Get(fields_names_values, "subtotal", "$0.00")),
                      !.tax = parse_decimal(Get(fields_names_values, "tax", "$0.00")),
                      !.assigned = @ \cup {"subtotal", "tax"}],
          err |-> NoErr]

\* first-level child elements a document may have under its outermost div
ChildElems ==
    {[tag |-> "div", text |-> t] : t \in {" Receipt\n", "RECEIPT", "Receipts", "Apple"}}
        \cup {[tag |-> "table", text |-> "receipt"]}

ChildLists == UNION {[1..n -> ChildElems] : n \in 0..MaxTopChildren}

\* label / value paragraphs of section 1
Sect1Pairs ==
    {<<"Order ID:", "MK01">>, <<" order id: ", " MK02 ">>, <<"Document:", "776">>,
     <<"Apple Account:", "a@b.c">>, <<"Billed To:", "Visa">>}

Sect1FieldLists == UNION {[1..n -> Sect1Pairs] : n \in 0..MaxFields}

\* label paragraphs and value divs of section 3
Sect3Names == {"Subtotal", "Tax", " TAX ", "Discount"}
Sect3NameLists == UNION {[1..n -> Sect3Names] : n \in 0..MaxFields}
Sect3AllValues == <<"$50.00", "$4.80", "", "0.80">>
Sect3ValueLists == {SubSeq(Sect3AllValues, 1, m) : m \in 0..MaxFields}

Sect1Default ==
    [date |-> " November 1, 2023 ",
     fields |-> <<<<"Order ID:", "MK01">>, <<"Document:", "776">>>>]

Sect2Default ==
    [img |-> "url",
     descriptions |-> <<"Blink Twice", "Thriller", "Movie Rental", "Report a Problem">>,
     amount |-> " $5.99 "]

Sect3Default ==
    [names |-> <<"Subtotal", "Tax">>, values |-> <<"$50.00", "$4.80">>,
     card |-> " Apple Card ", total |-> "$54.80"]

\* documents: every arrangement of the outermost div's children (and no div at
\* all) with the default sections, and the Variant A layout with every
\* arrangement of the labelled fields of sections 1 and 3
Documents ==
    {[kind |-> "soup", div |-> d, sect1 |-> Sect1Default, sect2 |-> Sect2Default,
      sect3 |-> Sect3Default] :
        d \in {NoDiv} \cup {[kind |-> "div", children |-> c] : c \in ChildLists}}
    \cup
    {[kind |-> "soup",
      div |-> [kind |-> "div",
               children |-> <<[tag |-> "div", text |-> "Receipt"],
                              [tag |-> "div", text |-> "Apple"]>>],
      sect1 |-> [Sect1Default EXCEPT !.fields = f],
      sect2 |-> Sect2Default,
      sect3 |-> [Sect3Default EXCEPT !.names = n, !.values = v]] :
        f \in Sect1FieldLists, n \in Sect3NameLists, v \in Sect3ValueLists}

parseFrame ==
    <<desc_lst, item, ret, ops, receipt, tax_rate, inbox, pending, headers,
      details, files, calls>>

\* receipt_email_factory: parser = get_parser(soup); receipt_email = ReceiptEmail()
GetParser ==
    /\ pc = "get_parser"
    /\ LET p == get_parser(doc) IN
         IF p = "AttributeError"
         THEN /\ err' = "AttributeError: 'NoneType' object has no attribute 'find_all'"
              /\ pc' = "raised"
              /\ UNCHANGED <<parser, dto>>
         ELSE /\ parser' = p
              /\ dto' = ReceiptEmail__init__
              /\ pc' = "parse_html_content"
              /\ UNCHANGED err
    /\ UNCHANGED <<parseFrame, doc>>

\* ParseFormat1.parse_html_content up to get_sections: the second top-level
\* child div holds the sections
Parse1GetSections ==
    /\ pc = "parse_html_content" /\ parser = "ParseFormat1"
    /\ IF Len(TopDivs(doc.div.children)) < 2
       THEN err' = "IndexError: list index out of range" /\ pc' = "raised"
       ELSE pc' = "section_1" /\ UNCHANGED err
    /\ UNCHANGED <<parseFrame, doc, parser, dto>>

\* ParseFormat1.process_section_1
Parse1Section1 ==
    /\ pc = "section_1"
    /\ LET dated == [dto EXCEPT !.receipt_date = parse_date(doc.sect1.date),
                                !.assigned = @ \cup {"receipt_date"}]
           res == set_sect_1_attribs(dated, parse_sect_1_fields(doc.sect1))
       IN  /\ dto' = res.dto
           /\ err' = res.err
           /\ pc' = IF res.err = NoErr THEN "section_2" ELSE "raised"
    /\ UNCHANGED <<parseFrame, doc, parser>>

\* ParseFormat1.process_section_2
Parse1Section2 ==
    /\ pc = "section_2"
    /\ LET d == doc.sect2.descriptions
           descriptions ==
               IF Lower(d[Len(d)]) = "report a problem"
               THEN SubSeq(d, 1, Len(d) - 1) ELSE d
       IN  dto' = [dto EXCEPT !.items = Append(@,
                      [item_category |-> None, descriptions |-> descriptions,
                       purchase_amount |-> parse_decimal(Strip(doc.sect2.amount)),
                       other_amount |-> 0, image_link |-> doc.sect2.img])]
    /\ pc' = "section_3"
    /\ UNCHANGED <<parseFrame, doc, parser, err>>

\* ParseFormat1.process_section_3
Parse1Section3 ==
    /\ pc = "section_3"
    /\ LET res == set_sect_3_attribs(dto, parse_sect_3_fields(doc.sect3)) IN
         IF res.err # NoErr
         THEN /\ dto' = res.dto
              /\ err' = res.err
              /\ pc' = "raised"
         ELSE /\ dto' = [res.dto EXCEPT
                            !.card = Strip(doc.sect3.card),
                            !.total = parse_decimal(Strip(doc.sect3.total)),
                            !.assigned = @ \cup {"card", "total"}]
              /\ pc' = "parsed"
              /\ UNCHANGED err
    /\ UNCHANGED <<parseFrame, doc, parser>>

InitParse ==
    /\ IdleItem /\ IdleTax
    /\ inbox = 0 /\ dto = NoDto /\ pending = <<>> /\ headers = <<>>
    /\ details = <<>> /\ files = {} /\ calls = <<>>
    /\ doc \in Documents
    /\ parser = None
    /\ pc = "get_parser"

NextParse ==
    \/ GetParser
    \/ Parse1GetSections
    \/ Parse1Section1
    \/ Parse1Section2
    \/ Parse1Section3

SpecParse == InitParse /\ [][NextParse]_vars

(* ------------------------------------------------------------------------ *)
(* The Variant B extractor (ParseFormat2) and one document end to end        *)

\* most item rows of one section of a Variant B document
MaxRows == 2

\* ParseFormat2.sections / ParseFormat2.category_map
sections == <<"app store", "apple tv", "apple services">>

category_map ==
    [s \in {"app store", "apple tv", "apple services"} |->
        CASE s = "app store" -> "app"
          [] s = "apple tv" -> "tv"
          [] s = "apple services" -> "service"]

\* a dollar amount text: stripped, a leading "$" dropped, "" read as 0.00
dollar_amt(text) ==
    LET t == Strip(text)
        v == IF StartsWith(t, "$") THEN From(t, 2) ELSE t
    IN  Decimal(IF v = "" THEN "0.00" ELSE v)

\* get_field_value_1 .. get_field_value_4: the text next to the labelled span,
\* and what is returned when no span carries the label
get_field_value(soup, field_text) == Get(soup.fields, field_text, "")

get_field_amount(soup, field_text) ==
    IF field_text \in DOMAIN soup.fields THEN dollar_amt(soup.fields[field_text])
    ELSE 0

\* soup.find('span', string=re.compile(rf'^{section_name}$', re.IGNORECASE)):
\* position of the first section whose header span holds the name, 0 for None
RECURSIVE find_section(_, _, _)
find_section(tables, section_name, i) ==
    IF i > Len(tables) THEN 0
    ELSE IF Lower(tables[i].header) = section_name THEN i
    ELSE find_section(tables, section_name, i + 1)

IsDescription(desc) ==
    Lower(desc) \notin {"report a problem", "write a review"} /\ desc # ""

\* ParseFormat2.get_item_details
get_item_details(section_name, row) ==
    [item_category |-> category_map[section_name],
     descriptions |-> SelectSeq(row.descriptions, IsDescription),
     purchase_amount |-> dollar_amt(row.amount),
     other_amount |-> dollar_amt(row.other),
     image_link |-> row.img]

\* len(row.find_all(recursive=False)) > 1
IsItemRow(row) == row.children > 1

\* ParseFormat2.process_section_items: receipt_email.items after the call
process_section_items(soup, section_name, items) ==
    LET k == find_section(soup.tables, section_name, 1) IN
    IF k = 0 THEN items
    ELSE LET rows == SelectSeq(soup.tables[k].rows, IsItemRow)
         IN  items \o [i \in 1..Len(rows) |-> get_item_details(section_name, rows[i])]

\* section headers as they are printed
Headers == {"App Store", "Apple TV", "Apple Services"}

\* every arrangement of sections: each header at most once, in any order
Arrangements ==
    {a \in UNION {[1..n -> Headers] : n \in 0..3} :
        \A i, j \in 1..Len(a) : i # j => a[i] # a[j]}

\* the item row r of the section in position s; its image link names the place
ItemRow(s, r) ==
    [children |-> 4,
     img |-> "img" \o Char(Digits, s + 1) \o Char(Digits, r + 1),
     descriptions |-> <<"Blink Twice", "Thriller", "Movie Rental", "Device A",
                        "Report a Problem">>,
     amount |-> "$10.00",
     other |-> ""]

\* a section: the row holding its header span, then its item rows
Table(header, s, n) ==
    [header |-> header,
     rows |-> <<[children |-> 1]>> \o [r \in 1..n |-> ItemRow(s, r)]]

\* Variant B documents: no sentinel div, the labelled receipt fields, and the
\* sections in every arrangement with up to MaxRows item rows each
DocumentsB ==
    {[kind |-> "soup",
      div |-> [kind |-> "div", children |-> <<[tag |-> "div", text |-> "Apple"]>>],
      fields |-> [f \in {"date", "order id", "document no", "apple account",
                         "subtotal", "tax", "total"} |->
                    CASE f = "date" -> "November 1, 2023"
                      [] f = "order id" -> o
                      [] f = "document no" -> "776"
                      [] f = "apple account" -> "a@b.c"
                      [] f = "subtotal" -> "$10.00"
                      [] f = "tax" -> "$0.80"
                      [] f = "total" -> "$10.80"],
      tables |-> [s \in 1..Len(a) |-> Table(a[s], s, n[s])]] :
        o \in OrderIds, a \in Arrangements, n \in [1..3 -> 0..MaxRows]}

\* the documents of Variant A (and those without a div) above that have the
\* default header section
DocumentsA ==
    {d \in Documents : get_parser(d) # "ParseFormat2" /\ d.sect1 = Sect1Default}

\* ParseFormat2.parse_html_content up to the section loop
Parse2Header ==
    /\ pc = "parse_html_content" /\ parser = "ParseFormat2"
    /\ LET apple_account ==
             IF get_field_value(doc, "apple account") # ""
             THEN get_field_value(doc, "apple account")
             ELSE get_field_value(doc, "apple id")
       IN  dto' = [dto EXCEPT
                      !.soup = doc.kind,
                      !.receipt_date = parse_date(get_field_value(doc, "date")),
                      !.order_id = get_field_value(doc, "order id"),
                      !.doc_nbr = get_field_value(doc, "document no"),
                      !.apple_account = apple_account,
                      !.assigned = @ \cup {"soup", "receipt_date", "order_id",
                                           "doc_nbr", "apple_account"}]
    /\ pc' = "section_items"
    /\ UNCHANGED <<parseFrame, doc, parser, err>>

\* for section in self.sections: self.process_section_items(section)
Parse2SectionItems ==
    /\ pc = "section_items"
    /\ dto' = [dto EXCEPT !.items =
                  process_section_items(doc, sections[3],
                      process_section_items(doc, sections[2],
                          process_section_items(doc, sections[1], @)))]
    /\ pc' = "totals"
    /\ UNCHANGED <<parseFrame, doc, parser, err>>

\* the receipt subtotal, tax and grand total
Parse2Totals ==
    /\ pc = "totals"
    /\ dto' = [dto EXCEPT
                  !.subtotal = get_field_amount(doc, "subtotal"),
                  !.tax = get_field_amount(doc, "tax"),
                  !.total = get_field_amount(doc, "total"),
                  !.assigned = @ \cup {"subtotal", "tax", "total"}]
    /\ pc' = "parsed"
    /\ UNCHANGED <<parseFrame, doc, parser, err>>

\* receipt_email_factory returns the carrier record to main(), which hands it
\* to Receipt.from_receipt_email
FactoryReturn ==
    /\ pc = "parsed"
    /\ pc' = "from_receipt_email"
    /\ UNCHANGED <<desc_lst, item, ret, ops, taxVars, batchVars>>

\* one message of the batch, from the parsed html body to the store
InitExtract ==
    /\ IdleItem
    /\ receipt = NoReceipt /\ tax_rate = DefaultTaxRate /\ err = NoErr
    /\ pc = "get_parser"
    /\ inbox = 0
    /\ dto = NoDto /\ pending = <<>> /\ calls = <<>>
    /\ \E st \in PriorStores :
         headers = st.headers /\ details = st.details /\ files = st.files
    /\ doc \in DocumentsA \cup DocumentsB
    /\ parser = None

NextExtract ==
    \/ GetParser
    \/ Parse1GetSections
    \/ Parse1Section1
    \/ Parse1Section2
    \/ Parse1Section3
    \/ Parse2Header
    \/ Parse2SectionItems
    \/ Parse2Totals
    \/ FactoryReturn
    \/ FromReceiptEmailConstruct
    \/ FromReceiptEmailAddItem
    \/ FromReceiptEmailApply
    \/ MainExists
    \/ MainSave
    \/ MainInsert
    \/ MainDone

SpecExtract == InitExtract /\ [][NextExtract]_vars

(* ------------------------------------------------------------------------ *)
(* Properties                                                                *)

\* apply_tax_to_items has returned without raising
Reconciled == pc = "reconciled" /\ err = NoErr

\* apply_tax_to_items has raised
Failed == pc = "reconciled" /\ err # NoErr

Items == receipt.items

\* raw tax of an item: its purchase amount times the rate, rounded, if it is
\* flagged taxable, else zero
RawTax(it) == IF it.taxable THEN calc_tax(it.purchase_amount, tax_rate) ELSE 0

RawTaxes == [i \in 1..Len(Items) |-> RawTax(Items[i])]

\* tax of an item recomputed as if taxable
AsIfTaxable(it) == calc_tax(it.purchase_amount, tax_rate)

Drift == receipt.tax - SumSeq(RawTaxes)

\* the branch of apply_tax_to_items taken
AttributionPath == receipt.tax # 0 /\ SumSeq(RawTaxes) = 0
DriftPath == ~AttributionPath

PurchaseAmounts == [i \in 1..Len(Items) |-> Items[i].purchase_amount]
TaxableFlags == [i \in 1..Len(Items) |-> Items[i].taxable]

\* C1: whenever apply_tax_to_items returns without raising on a receipt with at
\* least one item, the sum of tax_applied over all items equals receipt.tax
C1_SumOfItemTaxIsReceiptTax ==
    (Reconciled /\ Len(Items) >= 1) => SumSeq(TaxesOf(Items)) = receipt.tax

\* a reconciled receipt with several items one of which took a drift adjustment
C1_Witness ==
    /\ Reconciled /\ Len(Items) >= 3 /\ DriftPath /\ Drift # 0
    /\ \E i \in 1..Len(Items) : Items[i].tax_applied # RawTaxes[i]

\* C2: the type assigned is that of the first matching rule of the fixed order
\* (1)..(8), UNKNOWN when none matches, for every list including the empty one
C2_Rules(l) ==
    LET n == Len(l)
        third == IF n >= 3 THEN l[3] ELSE ""
        renews == StartsWith(third, "renews")
    IN  << [m |-> n = 4 /\ third = "movie rental", t |-> "MOVIE_RENTAL"],
           [m |-> n = 4 /\ third = "movie", t |-> "MOVIE_PURCHASE"],
           [m |-> n = 4 /\ third = "in-app purchase", t |-> "IN_APP_PURCHASE"],
           [m |-> n = 3 /\ l[2] = "in-app purchase", t |-> "IN_APP_MOVIE_RENTAL"],
           [m |-> n = 3 /\ renews /\ stream_desc(l[2]) \in STREAMING_SUBSCRIPTIONS,
            t |-> "STREAMING_SUBSCRIPTION"],
           [m |-> n = 3 /\ renews /\ l[1] \in SOFTWARE_SUBSCRIPTIONS,
            t |-> "SOFTWARE_SUBSCRIPTION"],
           [m |-> n = 3 /\ renews /\ srvc_desc(l[1]) \in SERVICE_SUBSCRIPTIONS,
            t |-> "SERVICE_SUBSCRIPTION"],
           [m |-> n = 4 /\ renews /\ l[1] \in INDIVIDUAL_SUBSCRIPTIONS,
            t |-> "INDIVIDUAL_SUBSCRIPTION"] >>

C2_FirstMatch(l) ==
    LET rules == C2_Rules(l)
        hits == {k \in 1..Len(rules) : rules[k].m}
    IN  IF hits = {} THEN "UNKNOWN"
        ELSE rules[CHOOSE k \in hits : \A j \in hits : k <= j].t

C2_TypeIsFirstMatchingRule ==
    /\ ret.op = "determine_item_type" =>
         /\ ret.value \in ItemTypes
         /\ ret.value = C2_FirstMatch(LowerAll(desc_lst))
    /\ item.kind = "Item" => item.item_type = C2_FirstMatch(LowerAll(desc_lst))

\* a list on which rules (5) and (6) both match, classified by rule (5)
C2_Witness ==
    /\ ret.op = "determine_item_type"
    /\ Len(desc_lst) = 3
    /\ Lower(desc_lst[1]) \in SOFTWARE_SUBSCRIPTIONS
    /\ stream_desc(Lower(desc_lst[2])) \in STREAMING_SUBSCRIPTIONS
    /\ ret.value = "STREAMING_SUBSCRIPTION"

\* C3: a constructed Item is taxable iff its type is IN_APP_PURCHASE,
\* SOFTWARE_SUBSCRIPTION or SERVICE_SUBSCRIPTION
C3_TaxableIffTaxableType ==
    item.kind = "Item" =>
        /\ item.item_type \in ItemTypes
        /\ item.taxable \in BOOLEAN
        /\ item.taxable <=>
             item.item_type \in {"IN_APP_PURCHASE", "SOFTWARE_SUBSCRIPTION",
                                 "SERVICE_SUBSCRIPTION"}

\* a constructed subscription that is not taxable
C3_Witness ==
    /\ item.kind = "Item"
    /\ item.item_type = "INDIVIDUAL_SUBSCRIPTION"
    /\ ~item.taxable

\* t is p * r / RateScale rounded half-up to an integer (p, r >= 0):
\* (2t - 1) * RateScale <= 2 * p * r < (2t + 1) * RateScale, both sides divided
\* by 10000 (the left and right bounds are multiples of it)
C4_IsHalfUp(p, r, t) ==
    LET q == 2 * p * (r \div 10000) + ((2 * p * (r % 10000)) \div 10000)
    IN  (2 * t - 1) * (RateScale \div 10000) <= q /\ q < (2 * t + 1) * (RateScale \div 10000)

\* C4: apply_tax(rate) sets tax_applied to purchase_amount x rate rounded
\* half-up if the item is taxable and to 0 if not, returns that value and sets
\* total_amount to purchase_amount + tax_applied, whatever they were before
C4_ApplyTaxSetsTaxAndTotal ==
    ret.op = "apply_tax" =>
        /\ IF item.taxable
             THEN C4_IsHalfUp(item.purchase_amount, ret.arg, item.tax_applied)
             ELSE item.tax_applied = 0
        /\ ret.value = item.tax_applied
        /\ item.total_amount = item.purchase_amount + item.tax_applied

\* apply_tax on a taxable item that carried another, non-zero tax before, with
\* a product that lies exactly half way (1.25 x 0.10)
C4_Witness ==
    /\ ret.op = "apply_tax" /\ item.taxable
    /\ ret.tax_before # 0 /\ ret.tax_before # item.tax_applied
    /\ item.purchase_amount = 125 /\ ret.arg = 10000000 /\ item.tax_applied = 13

\* C5: after apply_tax_to_items completes every item has total_amount =
\* purchase_amount + tax_applied; adjust_tax(d) adds d to tax_applied and to
\* total_amount, so total_amount - tax_applied is preserved
C5_TotalIsPurchasePlusTax ==
    /\ Reconciled =>
         \A i \in 1..Len(Items) :
            Items[i].total_amount = Items[i].purchase_amount + Items[i].tax_applied
    /\ ret.op = "adjust_tax" =>
         /\ item.tax_applied = ret.tax_before + ret.arg
         /\ item.total_amount = ret.total_before + ret.arg
         /\ item.total_amount - item.tax_applied = ret.total_before - ret.tax_before

\* a reconciled receipt whose adjusted item is not its first
C5_Witness ==
    /\ Reconciled /\ Len(Items) >= 2
    /\ Items[1].tax_applied = RawTaxes[1]
    /\ Items[2].tax_applied # RawTaxes[2]
    /\ Items[2].total_amount = Items[2].purchase_amount + Items[2].tax_applied

\* the four items of tests/test_receipt.py: 15.00 not taxable, then 10.00,
\* 25.00 and 25.00 taxable
C6_ExampleItems ==
    /\ PurchaseAmounts = <<1500, 1000, 2500, 2500>>
    /\ TaxableFlags = <<FALSE, TRUE, TRUE, TRUE>>

\* C6: in the drift path, a zero drift leaves every item at its raw tax; a
\* non-zero drift that does not fail goes to the first item in list order whose
\* raw tax is non-zero, and every other item keeps its raw tax
C6_DriftGoesToFirstTaxedItem ==
    (Reconciled /\ DriftPath) =>
        /\ Drift = 0 => TaxesOf(Items) = RawTaxes
        /\ Drift # 0 =>
             \E k \in 1..Len(Items) :
                /\ RawTaxes[k] # 0
                /\ \A j \in 1..(k - 1) : RawTaxes[j] = 0
                /\ Items[k].tax_applied = RawTaxes[k] + Drift
                /\ \A i \in 1..Len(Items) :
                      i # k => Items[i].tax_applied = RawTaxes[i]
        /\ (C6_ExampleItems /\ tax_rate = 3333333 /\ receipt.tax = 200) =>
             TaxesOf(Items) = <<0, 34, 83, 83>>
        /\ (C6_ExampleItems /\ tax_rate = 8000000 /\ receipt.tax = 480) =>
             TaxesOf(Items) = <<0, 80, 200, 200>>

\* the example with rate 0.03333333 and tax 2.00 after reconciliation
C6_Witness ==
    /\ Reconciled /\ DriftPath /\ Drift = 1
    /\ C6_ExampleItems /\ tax_rate = 3333333 /\ receipt.tax = 200
    /\ RawTaxes = <<0, 33, 83, 83>>

\* number of items flagged taxable
C7_TaxableCount == Cardinality({i \in 1..Len(Items) : Items[i].taxable})

\* number of items whose raw tax is non-zero
C7_TaxedCount == Cardinality({i \in 1..Len(Items) : RawTaxes[i] # 0})

C8_Matching == {i \in 1..Len(Items) : AsIfTaxable(Items[i]) = receipt.tax}

\* C8: in the attribution path, when some item's tax recomputed as if taxable
\* equals receipt.tax, the whole receipt.tax goes to exactly one such item and
\* every other item stays at 0.00
C8_WholeTaxToOneMatchingItem ==
    (pc = "reconciled" /\ AttributionPath /\ C8_Matching # {}) =>
        /\ err = NoErr
        /\ \E k \in C8_Matching :
              /\ Items[k].tax_applied = receipt.tax
              /\ \A i \in 1..Len(Items) : i # k => Items[i].tax_applied = 0

\* the tax attributed to a matching item that is neither first nor alone
C8_Witness ==
    /\ Reconciled /\ AttributionPath /\ Len(Items) >= 3
    /\ 1 \notin C8_Matching
    /\ \E k \in C8_Matching : Items[k].tax_applied = receipt.tax /\ ~Items[k].taxable

\* C9: in the attribution path, when no item's tax recomputed as if taxable
\* equals receipt.tax (also when there is no item), apply_tax_to_items fails
\* and no item is assigned the tax
C9_FailsWhenNoItemAccounts ==
    (pc = "reconciled" /\ AttributionPath /\ C8_Matching = {}) =>
        /\ err = ErrNoAccountableItem
        /\ \A i \in 1..Len(Items) : Items[i].tax_applied = 0

\* the failure on a receipt with items, none of which accounts for the tax
C9_Witness ==
    /\ Failed /\ AttributionPath /\ C8_Matching = {} /\ Len(Items) >= 2
    /\ err = ErrNoAccountableItem

\* the failure on a receipt without items
C9_WitnessNoItems ==
    Failed /\ AttributionPath /\ Len(Items) = 0 /\ err = ErrNoAccountableItem

\* positions in the call history of the current receipt (at
\* "from_receipt_email" the next carrier record is in hand and the history is
\* still that of the receipt before)
C10_At(name) == {k \in 1..Len(calls) : calls[k] = name}

C10_Persistence == C10_At("exists") \cup C10_At("save") \cup C10_At("insert")

\* C10: for a receipt built by from_receipt_email in the batch pipeline,
\* apply_tax_to_items runs exactly once, after the last add_item and before any
\* exists / save / insert; the constructor does not run it
C10_ReconciledExactlyOnce ==
    /\ Cardinality(C10_At("apply_tax_to_items")) <= 1
    /\ \A a \in C10_At("apply_tax_to_items") :
          /\ \A k \in C10_At("add_item") : k < a
          /\ pc # "from_receipt_email" =>
                Cardinality(C10_At("add_item")) = Len(dto.items)
          /\ \A k \in C10_Persistence : a < k
    /\ C10_Persistence # {} => Cardinality(C10_At("apply_tax_to_items")) = 1
    /\ pc \in {"exists", "save", "insert"} =>
          Cardinality(C10_At("apply_tax_to_items")) = 1
    /\ (Len(calls) >= 2 /\ pc # "from_receipt_email") =>
          (calls[2] # "apply_tax_to_items" \/ Len(dto.items) = 0)

\* a receipt with two items, reconciled once and then stored
C10_Witness ==
    /\ pc = "loop" /\ Len(calls) = 7
    /\ calls = <<"__init__", "add_item", "add_item", "apply_tax_to_items",
                 "exists", "save", "insert">>

\* apply_tax_to_items has been called on a receipt that was reconciled before
C11_Rerun == pc = "reconciled" /\ ret.op = "apply_tax_to_items" /\ ret.run >= 2

\* ... and some item carried a non-zero tax from the previous run
C11_CarriedTax == C11_Rerun /\ \E i \in 1..Len(ret.taxes_before) : ret.taxes_before[i] # 0

C12_EnteredWithTax ==
    /\ pc = "reconciled" /\ ret.op = "apply_tax_to_items"
    /\ \E i \in 1..Len(ret.taxes_before) : ret.taxes_before[i] # 0

\* C12: apply_tax_to_items invoked on a receipt in which some item already has
\* a non-zero tax_applied fails with an error
C12_NonzeroTaxSignalsMisuse == C12_EnteredWithTax => err # NoErr

\* C19: after apply_tax_to_items returns, receipt.subtotal is the reported
\* subtotal when that was non-zero, and receipt.total - receipt.tax when the
\* reported subtotal was zero
C19_SubtotalDerivedWhenZero ==
    (Reconciled /\ ret.op = "apply_tax_to_items" /\ ret.run = 1) =>
        /\ ret.subtotal_before # 0 => receipt.subtotal = ret.subtotal_before
        /\ ret.subtotal_before = 0 => receipt.subtotal = receipt.total - receipt.tax

\* a receipt reported with subtotal 0.00, tax 4.80 and total 52.80, reconciled
C19_Witness ==
    /\ Reconciled /\ ret.op = "apply_tax_to_items" /\ ret.run = 1
    /\ ret.subtotal_before = 0 /\ receipt.tax = 480 /\ receipt.subtotal = 4800
    /\ Len(Items) >= 1

\* texts whose trimmed, lower-cased form is 'receipt'
C13_SentinelTexts == {" Receipt\n", "RECEIPT", "Receipt"}

\* positions of the first-level child divs of the outermost div
C13_ChildDivs ==
    IF doc.div = NoDiv THEN {}
    ELSE {i \in 1..Len(doc.div.children) : doc.div.children[i].tag = "div"}

\* the first such child carries the sentinel text
C13_FirstIsSentinel ==
    /\ C13_ChildDivs # {}
    /\ LET k == CHOOSE i \in C13_ChildDivs : \A j \in C13_ChildDivs : i <= j
       IN  doc.div.children[k].text \in C13_SentinelTexts

\* C13: get_parser selects ParseFormat1 exactly when the first first-level
\* child div of the outermost div has trimmed, lower-cased text 'receipt' and
\* ParseFormat2 otherwise; it fails only on a document without such a root
\* child (one without any div), and then the error ends receipt_email_factory:
\* no parser and no carrier record are produced
C13_ParserByFirstChildDiv ==
    (doc # NoDoc /\ pc # "get_parser") =>
        /\ parser = "ParseFormat1" <=> C13_FirstIsSentinel
        /\ parser = "ParseFormat2" <=> (doc.div # NoDiv /\ ~C13_FirstIsSentinel)
        /\ parser = None => C13_ChildDivs = {}
        /\ parser = None <=> doc.div = NoDiv
        /\ parser = None =>
             /\ pc = "raised" /\ dto = NoDto
             /\ err = "AttributeError: 'NoneType' object has no attribute 'find_all'"

\* Variant A selected on a document whose first child element is not a div and
\* whose first child div reads RECEIPT
C13_Witness ==
    /\ doc # NoDoc /\ pc = "parse_html_content" /\ parser = "ParseFormat1"
    /\ Len(doc.div.children) = 2
    /\ doc.div.children[1].tag = "table"
    /\ doc.div.children[2].text = "RECEIPT"

\* the failure on a document without a div
C13_WitnessNoDiv == doc # NoDoc /\ pc = "raised" /\ doc.div = NoDiv /\ parser = None

\* the label and the value parsed from the paragraphs of section 1
C14_Label1 ==
    [t \in {"Order ID:", " order id: ", "Document:", "Apple Account:", "Billed To:"} |->
        CASE t \in {"Order ID:", " order id: "} -> "order id"
          [] t = "Document:" -> "document"
          [] t = "Apple Account:" -> "apple account"
          [] t = "Billed To:" -> "billed to"]

C14_Value1 ==
    [t \in {"MK01", " MK02 ", "776", "a@b.c", "Visa"} |->
        IF t = " MK02 " THEN "MK02" ELSE t]

\* the label parsed from a paragraph of section 3, and its value in cents
C14_Label3 ==
    [t \in {"Subtotal", "Tax", " TAX ", "Discount"} |->
        CASE t = "Subtotal" -> "subtotal"
          [] t \in {"Tax", " TAX "} -> "tax"
          [] t = "Discount" -> "discount"]

C14_Cents ==
    [t \in {"$50.00", "$4.80", "", "0.80"} |->
        CASE t = "$50.00" -> 5000 [] t = "$4.80" -> 480 [] t = "" -> 0 [] t = "0.80" -> 80]

\* value of a known label of section 1: that of its last pair, '' when missing
C14_Expected1(label) ==
    LET f == doc.sect1.fields
        ix == {i \in 1..Len(f) : C14_Label1[f[i][1]] = label}
    IN  IF ix = {} THEN ""
        ELSE C14_Value1[f[CHOOSE i \in ix : \A j \in ix : j <= i][2]]

\* number of label / value pairs of section 3
C14_Pairs3 ==
    IF Len(doc.sect3.names) < Len(doc.sect3.values)
    THEN Len(doc.sect3.names) ELSE Len(doc.sect3.values)

\* value of a known label of section 3 in cents: that of its last pair, 0.00
\* when missing
C14_Expected3(label) ==
    LET ix == {i \in 1..C14_Pairs3 : C14_Label3[doc.sect3.names[i]] = label}
    IN  IF ix = {} THEN 0
        ELSE C14_Cents[doc.sect3.values[CHOOSE i \in ix : \A j \in ix : j <= i]]

C14_WitnessSection3 ==
    /\ doc # NoDoc /\ pc = "raised" /\ err = ErrSect3
    /\ dto.order_id = "MK02" /\ dto.apple_account = ""
    /\ doc.sect3.names = <<"Subtotal", "Discount">> /\ C14_Pairs3 = 2

\* both sections accepted, the tax label missing
C14_WitnessDefaults ==
    /\ doc # NoDoc /\ pc = "parsed"
    /\ doc.sect3.names = <<"Subtotal">> /\ C14_Pairs3 = 1
    /\ dto.subtotal = 5000 /\ dto.tax = 0 /\ dto.doc_nbr = ""

\* C15: every failure raised by apply_tax_to_items carries in its message both
\* the receipt's order id and the numeric mismatch (the authoritative tax
\* and/or the drift)
C15_FailureNamesOrderAndMismatch ==
    (Failed /\ ret.op = "apply_tax_to_items") =>
        /\ "order_id" \in DOMAIN ret.detail
        /\ {"tax", "tax_adj"} \cap DOMAIN ret.detail # {}

\* every failure raised by apply_tax_to_items carries the authoritative tax or
\* the drift in its message
C15_FailureNamesMismatch ==
    (Failed /\ ret.op = "apply_tax_to_items") =>
        {"tax", "tax_adj"} \cap DOMAIN ret.detail # {}

\* structural errors of receipt_email_factory and reconciliation errors of
\* apply_tax_to_items
C16_Errors ==
    {ErrStructural, ErrNoAccountableItem, ErrNothingToAdjust, ErrSignificantAdjustment}

\* C16: when the processing of a document ends in a structural or a
\* reconciliation error, the store is as it was when the document was fetched:
\* no archive file, header row or item row was written for it
C16_NothingPersistedOnFailure ==
    (pc = "crashed" /\ err \in C16_Errors) =>
        /\ files = ret.files
        /\ headers = ret.headers
        /\ details = ret.details

\* a reconciliation error on a document fetched after another was persisted
C16_Witness ==
    /\ pc = "crashed" /\ err = ErrNoAccountableItem
    /\ receipt.order_id = "MK02" /\ headers = <<"MK01">> /\ files # {}
    /\ calls = <<"__init__", "apply_tax_to_items">>

\* a structural error on a fetched document
C16_WitnessStructural ==
    pc = "crashed" /\ err = ErrStructural /\ headers # <<>> /\ ret.headers = headers

\* C17: a structural or reconciliation error on one document does not end the
\* batch: while messages remain, main() has not terminated on it
C17_BatchSurvivesFailure ==
    (err \in C16_Errors /\ inbox > 0) => pc # "crashed"

\* C18: the store holds at most one header row per order id; a receipt whose
\* order id already has a header row is neither archived nor inserted; insert
\* adds exactly one header row and one item row per line item
C18_OrderIdIsIdempotencyKey ==
    /\ \A i, j \in 1..Len(headers) : headers[i] = headers[j] => i = j
    /\ (pc \in {"loop", "done"} /\ calls # <<>> /\ calls[Len(calls)] = "exists") =>
          /\ receipt.order_id \in {ret.headers[i] : i \in 1..Len(ret.headers)}
          /\ headers = ret.headers /\ details = ret.details /\ files = ret.files
    /\ (calls # <<>> /\ calls[Len(calls)] = "exists" /\ pc = "save") =>
          receipt.order_id \notin {headers[i] : i \in 1..Len(headers)}
    /\ (pc \in {"loop", "done"} /\ calls # <<>> /\ calls[Len(calls)] = "insert") =>
          /\ headers = Append(ret.headers, receipt.order_id)
          /\ Len(details) = Len(ret.details) + Len(receipt.items)
          /\ SubSeq(details, 1, Len(ret.details)) = ret.details
          /\ \A k \in (Len(ret.details) + 1)..Len(details) :
                details[k].hdr_id = Len(headers)
          /\ files = ret.files \cup {receipt.file_path}

\* the second document of a batch repeats the order id of the first, which was
\* inserted with two items: it is found and skipped
C18_Witness ==
    /\ pc = "loop" /\ inbox = 0 /\ calls # <<>> /\ calls[Len(calls)] = "exists"
    /\ headers = <<"MK02">> /\ Len(details) = 2 /\ receipt.order_id = "MK02"

C20_SubscriptionTypes ==
    {"STREAMING_SUBSCRIPTION", "SOFTWARE_SUBSCRIPTION", "SERVICE_SUBSCRIPTION",
     "INDIVIDUAL_SUBSCRIPTION"}

\* the cadence each cadence fragment stands for
C20_Cadence ==
    [x \in CadenceFragments |->
        CASE x \in {"Max Standard Monthly (Monthly)", "(monthly)",
                    "6 Month Plan billed Monthly"} -> "MONTHLY"
          [] x = "6 Month Pass (Annual)" -> "SEMI_ANNUAL"
          [] x \in {"Yearly subscription (Annual)", "Games - Annual (Yearly)"} -> "ANNUAL"
          [] x \in {"Annual Plan", ""} -> "FREQ_UNKNOWN"]

\* the cadence of an item of type t whose second fragment is x
C20_Expected(t, x) == IF t \in C20_SubscriptionTypes THEN C20_Cadence[x] ELSE None

\* C20: for the four subscription types the cadence is decided by the second
\* fragment, 'monthly' before '6 month' before '(annual)' / '(yearly)', and is
\* the UNKNOWN cadence when none occurs; for the five other types it is absent
C20_CadenceByPriority ==
    /\ ret.op = "determine_subscription_frequency" =>
          ret.value = C20_Expected(ret.item_type, desc_lst[2])
    /\ (item.kind = "Item" /\ desc_lst \in CadenceLists) =>
          /\ item.subscription_frequency = C20_Expected(item.item_type, desc_lst[2])
          /\ desc_lst = <<"Max: Stream HBO, TV, & Movies",
                          "Max Standard Monthly (Monthly)", "Renews March 24, 2025">> =>
                /\ item.item_type = "STREAMING_SUBSCRIPTION"
                /\ item.subscription_frequency = "MONTHLY"

\* the example item, constructed
C20_Witness ==
    /\ item.kind = "Item"
    /\ desc_lst = <<"Max: Stream HBO, TV, & Movies",
                    "Max Standard Monthly (Monthly)", "Renews March 24, 2025">>
    /\ item.subscription_frequency = "MONTHLY"

\* a fragment naming six months and a year, on a software subscription
C20_WitnessPriority ==
    /\ ret.op = "determine_subscription_frequency"
    /\ ret.item_type = "SOFTWARE_SUBSCRIPTION"
    /\ desc_lst[2] = "6 Month Pass (Annual)" /\ ret.value = "SEMI_ANNUAL"

\* a constructed subscription without a cadence keyword
C20_WitnessUnknown ==
    /\ item.kind = "Item" /\ desc_lst \in CadenceLists
    /\ item.item_type \in C20_SubscriptionTypes
    /\ item.subscription_frequency = "FREQ_UNKNOWN"

(* ------------------------------------------------------------------------ *)
(* C21: the device of an Item is the fourth fragment for MOVIE_RENTAL,        *)
(* MOVIE_PURCHASE, IN_APP_PURCHASE and INDIVIDUAL_SUBSCRIPTION, the third for *)
(* IN_APP_MOVIE_RENTAL and absent for the other four types; the constructor   *)
(* reads the lower-cased fragments, a direct call the fragments it is given.  *)
(* Constructing from ['Blink Twice','Thriller','Movie Rental','Device A']     *)
(* gives MOVIE_RENTAL, device 'device a' and secondary description 'thriller';*)
(* determine_device called on that list returns 'Device A'.                   *)

C21_Example == <<"Blink Twice", "Thriller", "Movie Rental", "Device A">>

\* one-based position of the device fragment, 0 when the type carries none
C21_Position(t) ==
    CASE t \in {"MOVIE_RENTAL", "MOVIE_PURCHASE", "IN_APP_PURCHASE",
                "INDIVIDUAL_SUBSCRIPTION"} -> 4
      [] t = "IN_APP_MOVIE_RENTAL" -> 3
      [] t \in {"STREAMING_SUBSCRIPTION", "SOFTWARE_SUBSCRIPTION",
                "SERVICE_SUBSCRIPTION", "UNKNOWN"} -> 0

C21_Fragment(t, lst) ==
    IF C21_Position(t) = 0 THEN None ELSE lst[C21_Position(t)]

C21_PositionalRule ==
    /\ item.kind = "Item" =>
           item.device = C21_Fragment(item.item_type, LowerAll(desc_lst))
    /\ ret.op = "determine_device" /\ ret.item_type \in ItemTypes =>
           ret.value = C21_Fragment(ret.item_type, desc_lst)

\* the example as the specification states it
C21_DeviceAsStated ==
    desc_lst = C21_Example /\ item.kind = "Item" =>
        /\ item.item_type = "MOVIE_RENTAL"
        /\ item.device = "Device A"
        /\ item.description_2 = "Thriller"

C21_DeviceByPosition ==
    /\ C21_PositionalRule
    /\ desc_lst = C21_Example /\ item.kind = "Item" =>
           /\ item.item_type = "MOVIE_RENTAL"
           /\ item.device = "device a"
           /\ item.description_2 = "thriller"
    /\ desc_lst = C21_Example /\ ret.op = "determine_device"
          /\ ret.item_type = "MOVIE_RENTAL" => ret.value = "Device A"

C21_Witness ==
    /\ desc_lst = C21_Example
    /\ item.kind = "Item"
    /\ item.device = "device a"
    /\ ret.op = "determine_device" /\ ret.item_type = "MOVIE_RENTAL"

C21_WitnessThird ==
    /\ item.kind = "Item"
    /\ item.item_type = "IN_APP_MOVIE_RENTAL"
    /\ item.device = "device h"

(* ------------------------------------------------------------------------ *)
(* C22: constructing an Item either fails or leaves description_1 set, never  *)
(* absent: for STREAMING, SOFTWARE and INDIVIDUAL subscriptions the (trimmed) *)
(* text before the first colon of the cleaned first fragment when it has a    *)
(* colon, for SERVICE_SUBSCRIPTION 'apple one' when the cleaned first         *)
(* fragment is a tier name and the cleaned first fragment otherwise, for the  *)
(* other types the first fragment.                                            *)

C22_First == Lower(desc_lst[1])

C22_Expected(t) ==
    IF t \in {"STREAMING_SUBSCRIPTION", "SOFTWARE_SUBSCRIPTION",
              "INDIVIDUAL_SUBSCRIPTION"} THEN
        Contains(stream_desc(C22_First), ":") =>
            item.description_1 = Strip(BeforeColon(stream_desc(C22_First)))
    ELSE IF t = "SERVICE_SUBSCRIPTION" THEN
        IF srvc_desc(C22_First) \in {"individual", "family", "premier"}
            THEN item.description_1 = "apple one"
            ELSE item.description_1 = srvc_desc(C22_First)
    ELSE item.description_1 = C22_First

C22_WitnessTier ==
    /\ item.kind = "Item"
    /\ item.item_type = "SERVICE_SUBSCRIPTION"
    /\ item.description_1 = "apple one"

C22_WitnessService ==
    /\ item.kind = "Item"
    /\ item.item_type = "SERVICE_SUBSCRIPTION"
    /\ desc_lst[1] = "Apple" \o NBSP \o "News+"
    /\ item.description_1 = "apple news+"

C22_WitnessFailure == desc_lst = <<>> /\ item.kind = "Error"

(* ------------------------------------------------------------------------ *)
(* C24: every reference-list membership check of determine_item_type compares *)
(* a fragment cleaned by the same function, so two fragment lists that differ *)
(* only by cadence annotations, the automatic-renewal annotation or           *)
(* non-breaking spaces are classified alike.                                  *)

\* a fragment with every annotation and artifact removed
C24_Clean(s) == srvc_desc(stream_desc(Lower(s)))

C24_SameUpToNoise(l1, l2) ==
    /\ Len(l1) = Len(l2)
    /\ \A k \in 1..Len(l1) : C24_Clean(l1[k]) = C24_Clean(l2[k])

C24_CleaningAppliedAtEveryCheck ==
    item.kind = "Item" =>
        \A l2 \in DeriveLists :
            C24_SameUpToNoise(desc_lst, l2) =>
                determine_item_type(LowerAll(l2)) = item.item_type

(* ------------------------------------------------------------------------ *)
(* C25: each of the five derivation functions has a branch for each of the    *)
(* nine item types: called on its own it raises 'Unexpected item type'        *)
(* exactly when the type is no member of the enumeration, and constructing an *)
(* Item never raises it.                                                      *)

C25_Derivations ==
    {"determine_description_1", "determine_description_2",
     "determine_subscription_frequency", "determine_renewal_date",
     "determine_device"}

C25_Derived ==
    {item.description_1, item.description_2, item.subscription_frequency,
     item.next_renewal_date, item.device}

C25_SwitchesAreComplete ==
    /\ ret.op \in C25_Derivations =>
           (ret.value = "ValueError" <=> ret.item_type \notin ItemTypes)
    /\ item.kind = "Item" =>
           item.item_type \in ItemTypes /\ "ValueError" \notin C25_Derived
    /\ item.kind = "Error" => item.exc # "ValueError"

C25_Witness ==
    /\ item.kind = "Item"
    /\ item.item_type = "UNKNOWN"
    /\ ret.op = "determine_renewal_date"
    /\ ret.item_type = "UNKNOWN"
    /\ ret.value = None

C25_WitnessOutside ==
    /\ ret.op = "determine_device"
    /\ ret.item_type = None
    /\ ret.value = "ValueError"

(* ------------------------------------------------------------------------ *)
(* C26: the 'no item has nonzero tax' failure is unreachable: whenever        *)
(* apply_tax_to_items takes the drift path with a nonzero drift, some item    *)
(* has a nonzero raw tax, and the call never raises that failure.             *)

C26_NothingToAdjustUnreachable ==
    /\ err # ErrNothingToAdjust
    /\ pc \in {"built", "reconciled"} /\ DriftPath /\ Drift # 0 =>
           \E i \in 1..Len(Items) : RawTaxes[i] # 0

C26_Witness ==
    /\ Reconciled
    /\ DriftPath /\ Drift # 0
    /\ receipt.tax = 0
    /\ Len(Items) >= 2
    /\ RawTaxes[1] = 0 /\ RawTaxes[2] # 0
    /\ Items[2].tax_applied = 0

(* ------------------------------------------------------------------------ *)
(* C27: in the attribution path (receipt tax nonzero, raw tax sum zero), when *)
(* two or more items have a recomputed tax equal to the receipt tax,          *)
(* apply_tax_to_items does not fail: the first such item in list order gets   *)
(* the whole tax and every other item stays at 0.00.                          *)

C27_Matching == {i \in 1..Len(Items) : AsIfTaxable(Items[i]) = receipt.tax}

C27_FirstOfSeveralMatchingItems ==
    pc = "reconciled" /\ AttributionPath /\ Cardinality(C27_Matching) >= 2 =>
        /\ err = NoErr
        /\ \E k \in C27_Matching :
             /\ \A j \in C27_Matching : k <= j
             /\ Items[k].tax_applied = receipt.tax
             /\ \A j \in 1..Len(Items) : j # k => Items[j].tax_applied = 0

C27_Witness ==
    /\ Reconciled /\ AttributionPath
    /\ Cardinality(C27_Matching) >= 2
    /\ 1 \notin C27_Matching
    /\ receipt.tax = 120

(* ------------------------------------------------------------------------ *)
(* C28: after apply_tax_to_items returns on a receipt whose purchase amounts, *)
(* rate and tax are non-negative, every item's tax_applied is non-negative,   *)
(* except that of the first item with a nonzero raw tax when several items    *)
(* have one: a drift within the threshold may exceed that item's raw tax and  *)
(* leave it negative, by less than the threshold.                             *)

C28_NonNegativeInputs ==
    /\ receipt.tax >= 0
    /\ tax_rate >= 0
    /\ \A i \in 1..Len(Items) : Items[i].purchase_amount >= 0

C28_Taxed == {i \in 1..Len(Items) : RawTaxes[i] # 0}

\* the claim as stated
C28_TaxAppliedNonNegative ==
    Reconciled /\ C28_NonNegativeInputs =>
        \A i \in 1..Len(Items) : Items[i].tax_applied >= 0

C28_TaxAppliedBoundedBelow ==
    Reconciled /\ C28_NonNegativeInputs =>
        \A i \in 1..Len(Items) :
            \/ Items[i].tax_applied >= 0
            \/ /\ DriftPath
               /\ Cardinality(C28_Taxed) > 1
               /\ i \in C28_Taxed /\ \A j \in C28_Taxed : i <= j
               /\ Items[i].tax_applied > -TaxAdjThreshold

C28_Witness ==
    /\ Reconciled /\ C28_NonNegativeInputs
    /\ Len(Items) = 3
    /\ \A i \in 1..3 : Items[i].purchase_amount = 13 /\ RawTaxes[i] = 1
    /\ receipt.tax = 0
    /\ Items[1].tax_applied = -2

(* ------------------------------------------------------------------------ *)
(* C29: apply_tax_to_items changes neither receipt.tax nor receipt.total, nor *)
(* the membership or order of the item list, nor any field of an item other   *)
(* than tax_applied and total_amount; it sets receipt.subtotal only when it   *)
(* was zero.  An item that receives the whole tax in the attribution path is  *)
(* still flagged not taxable.                                                 *)

\* an item, a receipt without the fields reconciliation writes
C29_ItemFrame(it) == [it EXCEPT !.tax_applied = 0, !.total_amount = 0]

C29_ReceiptFrame(r) ==
    [r EXCEPT !.subtotal = 0,
              !.items = [i \in 1..Len(r.items) |-> C29_ItemFrame(r.items[i])]]

C29_ReconciliationFrame ==
    pc = "reconciled" /\ ret.op = "apply_tax_to_items" =>
        /\ receipt.tax = ret.receipt_before.tax
        /\ receipt.total = ret.receipt_before.total
        /\ Len(Items) = Len(ret.receipt_before.items)
        /\ C29_ReceiptFrame(receipt) = C29_ReceiptFrame(ret.receipt_before)
        /\ ret.receipt_before.subtotal # 0 =>
               receipt.subtotal = ret.receipt_before.subtotal
        /\ AttributionPath /\ err = NoErr =>
               \A i \in 1..Len(Items) :
                   Items[i].tax_applied # 0 => ~Items[i].taxable

C29_Witness ==
    /\ Reconciled /\ AttributionPath
    /\ ret.run = 1
    /\ Len(Items) >= 2
    /\ Items[2].tax_applied = receipt.tax
    /\ ~Items[2].taxable
    /\ ret.receipt_before.subtotal = 0
    /\ receipt.subtotal # 0

(* ------------------------------------------------------------------------ *)
(* C23: the Receipt's item list is in document order: add_item appends at the *)
(* end, from_receipt_email attaches the items in the order of the carrier     *)
(* record, and the carrier record lists the line items in the order in which  *)
(* they appear in the document, for every arrangement of the sections of a    *)
(* Variant B document.                                                        *)

\* image links of the item rows of a Variant B document, in document order
C23_DocumentOrder ==
    LET rows(k) == SelectSeq(doc.tables[k].rows, IsItemRow)
        flat[k \in 0..Len(doc.tables)] ==
            IF k = 0 THEN <<>>
            ELSE flat[k - 1] \o [i \in 1..Len(rows(k)) |-> rows(k)[i].img]
    IN  flat[Len(doc.tables)]

C23_CarrierOrder == [i \in 1..Len(dto.items) |-> dto.items[i].image_link]

C23_ReceiptOrder == [i \in 1..Len(Items) |-> Items[i].image_url]

\* add_item appends and from_receipt_email follows the carrier record: the
\* items attached so far are the first entries of the carrier record
C23_AttachedInCarrierOrder ==
    pc \in {"add_items", "exists", "save", "insert"} =>
        /\ Len(Items) + Len(pending) = Len(dto.items)
        /\ C23_ReceiptOrder = SubSeq(C23_CarrierOrder, 1, Len(Items))

\* the carrier record of a Variant B document follows the document
C23_CarrierInDocumentOrder ==
    parser = "ParseFormat2"
        /\ pc \in {"totals", "parsed", "from_receipt_email", "add_items",
                    "exists", "save", "insert"} =>
        C23_CarrierOrder = C23_DocumentOrder

C23_ItemsInDocumentOrder ==
    C23_AttachedInCarrierOrder /\ C23_CarrierInDocumentOrder

(* ------------------------------------------------------------------------ *)
(* C30: after parse_html_content of either extractor the carrier record has   *)
(* the parsed document (soup) attached, so a receipt built from it that       *)
(* reconciles and is not yet stored is archived by Receipt.save and inserted. *)

\* Receipt.save never fails for want of the document
C30_SaveArchives == err # ErrSave

C30_CarrierHasDocument ==
    /\ pc = "parsed" /\ parser \in {"ParseFormat1", "ParseFormat2"} =>
           dto.soup # None
    /\ C30_SaveArchives

\* the Variant B extractor attaches the document
C30_VariantBHasDocument ==
    pc = "parsed" /\ parser = "ParseFormat2" => dto.soup # None

====
